---- MODULE Spec2Model ----
(***************************************************************************)
(* MetaBridge scoring and rule engine (routers/calculo_scores.py,          *)
(* routers/motor_reglas.py, core/ords_client.py).                          *)
(*                                                                         *)
(* Numbers.  Python floats are modelled as fixed-point integers counted    *)
(* in thousandths (Escala units per 1.0): a score of 6.67 is 6670, the     *)
(* tolerance 0.01 of the "=" operator is 10.  Weights and option values    *)
(* are whole numbers.  round(x, 2) is modelled on the exact quotient with  *)
(* ties to even, which is what Python does on exactly representable        *)
(* values.                                                                 *)
(*                                                                         *)
(* None is the Python None / JSON null of an optional numeric field.       *)
(***************************************************************************)
EXTENDS Integers, Sequences, FiniteSets, TLC

Escala == 1000
None == -9999

(***************************************************************************)
(* Bounds of the model.                                                    *)
(***************************************************************************)
MaxConds == 3
MaxFallos == 1
MaxInvocaciones == 4

VARIABLES
    entrada,          \* arguments of a direct call of evaluar_condiciones
    salida,           \* what that call returned
    respuestas,       \* ce_respuesta rows of evaluation 1, in store order
    ponderaciones,    \* ce_ponderacion of version 1: question -> peso, None = no row
    score_rows,       \* ce_score_cap_dim
    resultado_rows,   \* ce_resultado_regla
    procs,            \* one record per handler invocation in flight
    fallos,           \* store requests answered with an error so far
    invocaciones      \* handler invocations started so far

vars == <<entrada, salida, respuestas, ponderaciones, score_rows, resultado_rows,
          procs, fallos, invocaciones>>

(***************************************************************************)
(* ConditionOperator: evaluar_operador.                                    *)
(* The body of the try block yields either a boolean or a raised           *)
(* exception; the except clause logs and returns False.                    *)
(*   - BETWEEN with valor2 None raises ValueError (line 75);               *)
(*   - any comparison of a float with None raises TypeError;               *)
(*   - the order of two doubles is the order of the decimals they stand    *)
(*     for, so >=, <=, >, < and BETWEEN compare the thousandths.           *)
(***************************************************************************)
Tolerancia == 10

Abs(x) == IF x < 0 THEN -x ELSE x

\* The numbers of the program are IEEE-754 doubles.  A number the model
\* writes n (thousandths) is the double nearest to n/1000; ErrorDoble(n) is
\* that double minus n/1000, in units of 1/(1000 * 2^62).  For 0 < |n| <
\* 16000: with 2^E <= n/1000 < 2^(E+1) the double keeps 52 - E binary
\* places, r/1000 is the part of n/1000 * 2^(52-E) after the point, and the
\* double is the nearer of the two neighbours (r = 500 cannot happen).
RECURSIVE Pow2Mod(_)
Pow2Mod(s) == IF s = 0 THEN 1 ELSE (2 * Pow2Mod(s - 1)) % 1000

Exponente(n) ==
    CHOOSE E \in -10..3 :
        (2 ^ (10 + E)) * 1000 <= n * 1024 /\ n * 1024 < (2 ^ (11 + E)) * 1000

RECURSIVE ErrorDoble(_)
ErrorDoble(n) ==
    IF n = 0 THEN 0
    ELSE IF n < 0 THEN -ErrorDoble(-n)
    ELSE LET E == Exponente(n)
             r == ((n % 1000) * Pow2Mod(52 - E)) % 1000
             k == 2 ^ (10 + E)
         IN  IF 2 * r < 1000 THEN -(r * k) ELSE (1000 - r) * k

\* The spacing of the doubles around 0.01 (2^-59), in the same units.
UlpTolerancia == 8000

\* Real arithmetic: |valor - valor1| < 0.01.
IgualEnReales(valor, valor1) == Abs(valor - valor1) < Tolerancia

\* abs(valor - valor1) < 0.01 (line 72) on doubles: the difference is the
\* double nearest to the exact difference of the two doubles, compared with
\* the double nearest to 0.01.  Away from a decimal difference of exactly
\* 0.01 the representation errors decide nothing; at it the computed
\* difference is below the double 0.01 when the exact one lies at least
\* half a spacing below it (at exactly half it rounds down, the mantissa of
\* the double 0.01 being odd).
IgualEnDobles(valor, valor1) ==
    LET dn == Abs(valor - valor1)
        de == IF valor >= valor1 THEN ErrorDoble(valor) - ErrorDoble(valor1)
              ELSE ErrorDoble(valor1) - ErrorDoble(valor)
    IN  \/ dn < Tolerancia
        \/ /\ dn = Tolerancia
           /\ 2 * (de - ErrorDoble(Tolerancia)) <= -UlpTolerancia

Devuelve(b) == [raised |-> FALSE, value |-> b]
Lanza == [raised |-> TRUE, value |-> FALSE]

\* Lines 62-78 with the bounds of >=, <= and BETWEEN taken as exclusive.
evaluar_operador_estricto(valor, operador, valor1, valor2) ==
    CASE operador \in {">=", ">"} ->
            IF valor1 = None THEN Lanza ELSE Devuelve(valor > valor1)
      [] operador \in {"<=", "<"} ->
            IF valor1 = None THEN Lanza ELSE Devuelve(valor < valor1)
      [] operador = "="  -> IF valor1 = None THEN Lanza
                            ELSE Devuelve(IgualEnDobles(valor, valor1))
      [] operador = "BETWEEN" ->
            IF valor2 = None THEN Lanza
            ELSE IF valor1 = None THEN Lanza
            ELSE Devuelve(valor1 < valor /\ valor < valor2)
      [] OTHER -> Devuelve(FALSE)

\* Lines 62-78: the try block.
evaluar_operador_try(valor, operador, valor1, valor2) ==
    CASE operador = ">=" -> IF valor1 = None THEN Lanza ELSE Devuelve(valor >= valor1)
      [] operador = "<=" -> IF valor1 = None THEN Lanza ELSE Devuelve(valor <= valor1)
      [] operador = ">"  -> IF valor1 = None THEN Lanza ELSE Devuelve(valor > valor1)
      [] operador = "<"  -> IF valor1 = None THEN Lanza ELSE Devuelve(valor < valor1)
      [] operador = "="  -> IF valor1 = None THEN Lanza
                            ELSE Devuelve(IgualEnDobles(valor, valor1))
      [] operador = "BETWEEN" ->
            IF valor2 = None THEN Lanza
            ELSE IF valor1 = None THEN Lanza
            ELSE Devuelve(valor1 <= valor /\ valor <= valor2)
      [] OTHER -> Devuelve(FALSE)

\* evaluar_operador with an operator it does not know taken as satisfied.
evaluar_operador_permisivo(valor, operador, valor1, valor2) ==
    LET r == evaluar_operador_try(valor, operador, valor1, valor2)
    IN  IF r.raised THEN FALSE
        ELSE IF operador \notin {">=", "<=", ">", "<", "=", "BETWEEN"} THEN TRUE
        ELSE r.value

\* except Exception: logger.error(...); return False   (lines 80-82)
evaluar_operador(valor, operador, valor1, valor2) ==
    LET r == evaluar_operador_try(valor, operador, valor1, valor2)
    IN  IF r.raised THEN FALSE ELSE r.value

(***************************************************************************)
(* RuleEvaluator: evaluar_condiciones.                                     *)
(* A condition is a record                                                 *)
(*   [orden, grupo, conector, id_capacidad, id_dimension, operador,        *)
(*    valor1, valor2]                                                      *)
(* and scores is a function from <<id_capacidad, id_dimension>> to score.  *)
(***************************************************************************)
\* Line 188 with the highest score, 10, for a pair the map does not have.
ScoreActualMaximo(scores, cond) ==
    LET k == <<cond.id_capacidad, cond.id_dimension>>
    IN  IF k \in DOMAIN scores THEN scores[k] ELSE 10 * Escala

\* Line 188: scores.get((id_cap, id_dim), 0).
ScoreActual(scores, cond) ==
    LET k == <<cond.id_capacidad, cond.id_dimension>>
    IN  IF k \in DOMAIN scores THEN scores[k] ELSE 0

Cumple(scores, cond) ==
    evaluar_operador(ScoreActual(scores, cond), cond.operador, cond.valor1, cond.valor2)

\* grupos = {} ... grupos[grupo_id].append(cond): the group ids in the order
\* of their first occurrence (dict insertion order).
RECURSIVE GruposEnOrden(_)
GruposEnOrden(conds) ==
    IF conds = <<>> THEN <<>>
    ELSE LET antes == GruposEnOrden(SubSeq(conds, 1, Len(conds) - 1))
             g == conds[Len(conds)].grupo
         IN  IF \E i \in 1..Len(antes) : antes[i] = g THEN antes ELSE Append(antes, g)

CondsDeGrupo(conds, g) == SelectSeq(conds, LAMBDA c : c.grupo = g)

\* Lines 206-212 without the branch i == 0.
AplicarSinSemilla(i, resultado_grupo, cumple, conector) ==
    IF conector = "AND" THEN resultado_grupo /\ cumple
    ELSE IF conector = "OR" THEN resultado_grupo \/ cumple
    ELSE resultado_grupo

\* Lines 206-212 with every connector other than "OR" read as "AND".
AplicarConectorY(i, resultado_grupo, cumple, conector) ==
    IF i = 0 THEN cumple
    ELSE IF conector = "OR" THEN resultado_grupo \/ cumple
    ELSE resultado_grupo /\ cumple

\* Lines 206-212: the AND/OR step of the fold.  i is the 0-based position of
\* the condition in its group.
AplicarConector(i, resultado_grupo, cumple, conector) ==
    IF i = 0 THEN cumple
    ELSE IF conector = "AND" THEN resultado_grupo /\ cumple
    ELSE IF conector = "OR" THEN resultado_grupo \/ cumple
    ELSE resultado_grupo

\* resultado_grupo after the first n conditions of the group (n >= 1).
RECURSIVE ResultadoGrupo(_, _, _)
ResultadoGrupo(grupo_conds, scores, n) ==
    LET cond == grupo_conds[n]
        cumple == Cumple(scores, cond)
    IN  IF n = 1 THEN AplicarConector(0, FALSE, cumple, cond.conector)
        ELSE AplicarConector(n - 1, ResultadoGrupo(grupo_conds, scores, n - 1),
                             cumple, cond.conector)

DetalleCondicion(scores, cond, i) ==
    [orden        |-> cond.orden,
     capacidad    |-> cond.id_capacidad,
     dimension    |-> cond.id_dimension,
     operador     |-> cond.operador,
     valor_esperado |-> cond.valor1,
     valor_actual |-> ScoreActual(scores, cond),
     cumple       |-> Cumple(scores, cond),
     conector     |-> IF i > 0 THEN cond.conector ELSE "None"]

DetalleGrupo(conds, scores, g) ==
    LET gc == CondsDeGrupo(conds, g)
    IN  [grupo_id    |-> g,
         cumple      |-> ResultadoGrupo(gc, scores, Len(gc)),
         condiciones |-> [i \in 1..Len(gc) |-> DetalleCondicion(scores, gc[i], i - 1)]]

\* Line 230 with all() for any().
TodosLosGrupos(detalle_grupos) ==
    \A j \in 1..Len(detalle_grupos) : detalle_grupos[j].cumple

\* Line 230: resultado_final = any(resultados_grupos).
CombinarGrupos(detalle_grupos) ==
    \E j \in 1..Len(detalle_grupos) : detalle_grupos[j].cumple

\* Lines 154-155 with a rule without conditions taken as satisfied.
SinCondicionesCumple == [cumple |-> TRUE, detalle |-> [error |-> "No hay condiciones"]]

\* Lines 154-155: what the call returns for an empty condition list.
SinCondiciones == [cumple |-> FALSE, detalle |-> [error |-> "No hay condiciones"]]

\* The dict of lines 234-239 has no key "error", the one of line 155 has no
\* other key.
evaluar_condiciones(condiciones, scores) ==
    IF condiciones = <<>>
    THEN SinCondiciones
    ELSE LET grupos == GruposEnOrden(condiciones)
             dg == [j \in 1..Len(grupos) |-> DetalleGrupo(condiciones, scores, grupos[j])]
         IN  [cumple |-> CombinarGrupos(dg),
              detalle |-> [num_grupos |-> Len(grupos),
                           grupos_cumplidos |->
                               Cardinality({j \in 1..Len(dg) : dg[j].cumple}),
                           logica_global |-> "OR entre grupos",
                           detalle_grupos |-> dg]]

SinSalida == [hecho |-> FALSE, cumple |-> FALSE,
              detalle |-> [error |-> "", num_grupos |-> 0, grupos_cumplidos |-> 0,
                           detalle_grupos |-> <<>>]]

SinEntrada == [condiciones |-> <<>>, scores |-> <<>>]

(***************************************************************************)
(* The Record Store (ORDS AutoREST behind ords_request).                   *)
(* What the handlers never write is fixed: three evaluations (1 has        *)
(* version 1, 2 has none, 3 has version 2 and no answers), three           *)
(* questions, two options, two active capabilities and dimensions, four    *)
(* active rules of version 1 and none of version 2.  The answers and the   *)
(* weights are drawn in Init.                                              *)
(***************************************************************************)
Evaluaciones == {1, 2, 3}

\* GET /ce_evaluacion/{id}: the id_version field.
VersionDe(id_evaluacion) ==
    CASE id_evaluacion = 1 -> 1
      [] id_evaluacion = 3 -> 2
      [] OTHER -> None

\* GET /ce_respuesta/?id_evaluacion=...
RespuestasDe(id_evaluacion) == IF id_evaluacion = 1 THEN respuestas ELSE <<>>

\* GET /ce_pregunta/{id}
Pregunta(id_pregunta) ==
    IF id_pregunta = 3 THEN [id_capacidad |-> 2, id_dimension |-> 1]
    ELSE [id_capacidad |-> 1, id_dimension |-> 1]

\* GET /ce_opcion_respuesta/{id}: valor_base.
ValorBase(id_opcion) == IF id_opcion = 1 THEN 4 ELSE 8

\* GET /ce_capacidad/?fl_activa=Y and /ce_dimension/?fl_activa=Y
CapacidadesActivas == <<1, 2>>
DimensionesActivas == <<1, 2>>

\* GET /ce_regla/?id_version=...&fl_activa=Y
ReglasActivas(id_version) == IF id_version = 1 THEN <<1, 2, 3, 4>> ELSE <<>>

\* GET /ce_regla/{id}: rules 1 to 4 are the active rules of version 1, rule 5
\* is a rule of version 1 that is not active, rule 6 a rule of version 2.
ReglaTabla(id_regla) ==
    [id_regla |-> id_regla,
     id_version |-> IF id_regla = 6 THEN 2 ELSE 1,
     fl_activa |-> IF id_regla \in {1, 2, 3, 4} THEN "Y" ELSE "N",
     codigo |-> <<"codigo", id_regla>>, nombre |-> <<"nombre", id_regla>>,
     descripcion |-> <<"descripcion", id_regla>>,
     tipo_regla |-> IF id_regla % 2 = 0 THEN "RIESGO" ELSE "FORTALEZA"]

Cond(orden, grupo, conector, cap, dim, operador, valor1, valor2) ==
    [orden |-> orden, grupo |-> grupo, conector |-> conector, id_capacidad |-> cap,
     id_dimension |-> dim, operador |-> operador, valor1 |-> valor1, valor2 |-> valor2]

\* GET /ce_condicion_regla/?id_regla=...: the rows in the order the store
\* returns them.  Rule 2 has no condition; the first condition of rule 4
\* has an operator evaluar_operador does not know.
CondicionesTabla(id_regla) ==
    CASE id_regla = 1 ->
            << Cond(1, 1, "AND", 1, 1, ">=", 6500, None) >>
      [] id_regla = 3 ->
            << Cond(2, 1, "AND", 2, 1, ">=", 5000, None),
               Cond(1, 1, "AND", 1, 1, ">=", 7000, None),
               Cond(3, 2, "OR", 1, 2, "BETWEEN", 1000, None) >>
      [] id_regla = 4 ->
            << Cond(1, 1, "AND", 1, 1, "LIKE", 5000, None),
               Cond(2, 1, "OR", 1, 1, ">=", 6500, None),
               Cond(3, 2, "AND", 2, 1, ">=", 3000, None) >>
      [] OTHER -> <<>>

\* sorted(condiciones, key=lambda x: x.get("orden", 0)): a stable sort.
RECURSIVE Ordenar(_)
Ordenar(conds) ==
    IF conds = <<>> THEN <<>>
    ELSE LET antes == Ordenar(SubSeq(conds, 1, Len(conds) - 1))
             x == conds[Len(conds)]
             n == Cardinality({i \in 1..Len(antes) : antes[i].orden <= x.orden})
         IN  SubSeq(antes, 1, n) \o <<x>> \o SubSeq(antes, n + 1, Len(antes))

\* round(x, 2) of the quotient num / den, in thousandths.  The handlers
\* divide only after the check of line 242, so den = 0 does not get here.
Round2(num, den) ==
    IF den = 0 THEN 0
    ELSE LET n == IF den < 0 THEN -num ELSE num
             d == Abs(den)
             q == (100 * n) \div d
             r == (100 * n) % d
             c == IF 2 * r < d THEN q
                  ELSE IF 2 * r > d THEN q + 1
                  ELSE IF q % 2 = 0 THEN q ELSE q + 1
         IN  (Escala \div 100) * c

\* The id the store gives the next row of a table.
NuevoIdScore ==
    IF score_rows = {} THEN 1
    ELSE 1 + (CHOOSE i \in {r.id_score : r \in score_rows} :
                 \A r \in score_rows : r.id_score <= i)
NuevoIdResultado ==
    IF resultado_rows = {} THEN 1
    ELSE 1 + (CHOOSE i \in {r.id_resultado_regla : r \in resultado_rows} :
                 \A r \in resultado_rows : r.id_resultado_regla <= i)

\* The GET of lines 120-123 without the filters on id_capacidad and
\* id_dimension.
ScoresDeEvaluacion(e, c, d) ==
    {r \in score_rows : r.id_evaluacion = e}

ScoresDeClave(e, c, d) ==
    {r \in score_rows : r.id_evaluacion = e /\ r.id_capacidad = c /\ r.id_dimension = d}

\* The GET of lines 254-257 without the filter on id_regla.
ResultadosDeEvaluacion(e, id_regla) ==
    {r \in resultado_rows : r.id_evaluacion = e}

ResultadosDeClave(e, id_regla) ==
    {r \in resultado_rows : r.id_evaluacion = e /\ r.id_regla = id_regla}

\* items[0] of a filtered GET: the store lists rows by ascending id.
PrimerIdScore(rows) == CHOOSE i \in {r.id_score : r \in rows} :
                           \A r \in rows : i <= r.id_score
PrimerIdResultado(rows) == CHOOSE i \in {r.id_resultado_regla : r \in rows} :
                               \A r \in rows : i <= r.id_resultado_regla

\* obtener_scores_evaluacion, lines 92-103: a later row of a key overwrites
\* an earlier one in score_dict.
ScoreDict(e) ==
    LET rows == {r \in score_rows : r.id_evaluacion = e}
        keys == {<<r.id_capacidad, r.id_dimension>> : r \in rows}
    IN  [k \in keys |->
            (CHOOSE r \in rows :
                /\ <<r.id_capacidad, r.id_dimension>> = k
                /\ \A r2 \in rows : <<r2.id_capacidad, r2.id_dimension>> = k
                                        => r2.id_score <= r.id_score).score]

(***************************************************************************)
(* Handler invocations.  Every await of ords_request is one step; a        *)
(* request is answered with its data or, while fallos < MaxFallos, with an *)
(* error (httpx.RequestError / HTTPStatusError).  fallidas counts the      *)
(* failed requests of the invocation (a history field).                    *)
(***************************************************************************)
Procs == {1, 2}

Pendiente == [status |-> 0, detail |-> "", cuerpo |-> <<>>]
Ok200(cuerpo) == [status |-> 200, detail |-> "", cuerpo |-> cuerpo]
Err400(detail) == [status |-> 400, detail |-> detail, cuerpo |-> <<>>]
Err500 == [status |-> 500, detail |-> "error", cuerpo |-> <<>>]

ProcInicial ==
    [op |-> "ninguna", pc |-> "libre",
     id_evaluacion |-> 0, id_capacidad |-> 0, id_dimension |-> 0,
     id_version |-> None, respuestas |-> <<>>, i |-> 0, valor_base |-> 0,
     numerador |-> 0, denominador |-> 0, num_respuestas |-> 0,
     id_existente |-> 0,
     pares |-> <<>>, k |-> 0, scores_calculados |-> <<>>, errores |-> <<>>,
     scores |-> <<>>, reglas |-> <<>>, j |-> 0, condiciones |-> <<>>,
     cumple |-> FALSE, detalle |-> SinSalida.detalle,
     resultados |-> <<>>, reglas_cumplidas |-> 0,
     ids |-> <<>>, eliminados |-> 0, h_intentados |-> {},
     filas |-> <<>>, insights |-> <<>>,
     resultado |-> Pendiente, fallidas |-> 0]

Poner(p, pr) == procs' = [procs EXCEPT ![p] = pr]

ConFallo(pr) == [pr EXCEPT !.fallidas = @ + 1]

PuedeFallar == fallos < MaxFallos

\* The handler returns or raises: what the caller of the endpoint gets.
FinHandler(pr, res) == [pr EXCEPT !.pc = "fin", !.resultado = res]

(***************************************************************************)
(* calcular_score_especifico (computeScore) and guardar_score.             *)
(***************************************************************************)
\* calcular_todos_scores, lines 328-338, then the next turn of its loops
\* (lines 311-317) or its return (line 345).
TrasElPar(pr, res) ==
    IF res.status # 200 /\ res.status # 400
    THEN FinHandler(pr, res)
    ELSE LET q == IF res.status = 200
                  THEN [pr EXCEPT !.scores_calculados = Append(@, res.cuerpo)]
                  ELSE [pr EXCEPT !.errores =
                            Append(@, [capacidad |-> pr.id_capacidad,
                                       dimension |-> pr.id_dimension,
                                       error |-> res.detail])]
         IN  IF q.k < Len(q.pares)
             THEN [q EXCEPT !.k = @ + 1,
                            !.id_capacidad = q.pares[q.k + 1][1],
                            !.id_dimension = q.pares[q.k + 1][2],
                            !.id_version = None, !.respuestas = <<>>, !.i = 0,
                            !.valor_base = 0, !.numerador = 0, !.denominador = 0,
                            !.num_respuestas = 0, !.id_existente = 0,
                            !.pc = "cs_evaluacion"]
             ELSE FinHandler(q, Ok200([scores_calculados |-> Len(q.scores_calculados),
                                       scores_detalle |-> q.scores_calculados]))

\* calcular_score_especifico returns or raises: to the caller of the
\* endpoint, or to calcular_todos_scores (line 320).
FinEspecifico(pr, res) ==
    IF pr.op = "todos" THEN TrasElPar(pr, res) ELSE FinHandler(pr, res)

\* Lines 241-254 with a zero denominator read as "score 0".
TrasElBucleScoreCero(pr) == [pr EXCEPT !.pc = "gs_get"]

\* Lines 241-254: the check of the denominator, then on to guardar_score.
TrasElBucle(pr) ==
    IF pr.denominador = 0
    THEN FinEspecifico(pr, Err400("sin_respuestas_capdim"))
    ELSE [pr EXCEPT !.pc = "gs_get"]

\* The next turn of the loop of line 202.
Avanzar(pr) ==
    IF pr.i < Len(pr.respuestas)
    THEN [pr EXCEPT !.i = @ + 1, !.pc = "cs_pregunta"]
    ELSE TrasElBucle(pr)

\* Lines 210-211 without the test of the dimension.
CoincideSoloCapacidad(pregunta, id_capacidad, id_dimension) ==
    pregunta.id_capacidad = id_capacidad

\* Lines 210-211: the filter on the question's capacity and dimension.
Coincide(pregunta, id_capacidad, id_dimension) ==
    pregunta.id_capacidad = id_capacidad /\ pregunta.id_dimension = id_dimension

\* Lines 220-227 with weight 0 where no weight row is found.
PesoCero(ponderacion) == IF ponderacion = None THEN 0 ELSE ponderacion

\* Lines 220-227.
Peso(ponderacion) == IF ponderacion = None THEN 1 ELSE ponderacion

\* Lines 229-239 without the weight in the numerator.
AcumularSinPeso(pr, peso) ==
    [pr EXCEPT !.numerador = @ + pr.valor_base,
               !.denominador = @ + peso,
               !.num_respuestas = @ + 1]

\* Lines 229-239.
Acumular(pr, peso) ==
    [pr EXCEPT !.numerador = @ + pr.valor_base * peso,
               !.denominador = @ + peso,
               !.num_respuestas = @ + 1]

\* The ScoreCalculadoResponse of lines 257-270.
RespuestaScore(pr) ==
    [id_capacidad |-> pr.id_capacidad, id_dimension |-> pr.id_dimension,
     score |-> Round2(pr.numerador, pr.denominador),
     num_respuestas |-> pr.num_respuestas,
     peso_total |-> pr.denominador * Escala]

\* The payload of lines 127-132 as the row it becomes.  h_den, h_fallidas and
\* h_escrituras are history fields: the denominator and the failed requests
\* of the writer, and how often the row was written.
FilaScore(pr, id_score, h_escrituras) ==
    [id_score |-> id_score, id_evaluacion |-> pr.id_evaluacion,
     id_capacidad |-> pr.id_capacidad, id_dimension |-> pr.id_dimension,
     score |-> Round2(pr.numerador, pr.denominador),
     h_den |-> pr.denominador, h_fallidas |-> pr.fallidas,
     h_escrituras |-> h_escrituras]

\* How often the rows with this id were written so far.
EscriturasScore(id_score) ==
    LET rows == {r \in score_rows : r.id_score = id_score}
    IN  IF rows = {} THEN 0 ELSE (CHOOSE r \in rows : TRUE).h_escrituras

\* A call of calcular_score_especifico (line 155) with its three arguments.
IniciarEspecifico(p) ==
    /\ procs[p].pc = "libre"
    /\ invocaciones < MaxInvocaciones
    /\ \E e \in Evaluaciones :
       \E c \in {CapacidadesActivas[x] : x \in 1..Len(CapacidadesActivas)} :
       \E d \in {DimensionesActivas[x] : x \in 1..Len(DimensionesActivas)} :
           Poner(p, [ProcInicial EXCEPT !.op = "especifico", !.pc = "cs_evaluacion",
                                        !.id_evaluacion = e, !.id_capacidad = c,
                                        !.id_dimension = d])
    /\ invocaciones' = invocaciones + 1
    /\ UNCHANGED <<entrada, salida, respuestas, ponderaciones, score_rows,
                   resultado_rows, fallos>>

\* Lines 178-186.
ObtenerEvaluacion(p) ==
    LET pr == procs[p] IN
    /\ pr.pc = "cs_evaluacion"
    /\ \/ /\ LET v == VersionDe(pr.id_evaluacion)
             IN  IF v = None
                 THEN Poner(p, FinEspecifico(pr, Err400("sin_version")))
                 ELSE Poner(p, [pr EXCEPT !.id_version = v, !.pc = "cs_respuestas"])
          /\ UNCHANGED fallos
       \/ /\ PuedeFallar
          /\ fallos' = fallos + 1
          /\ Poner(p, FinEspecifico(ConFallo(pr), Err500))
    /\ UNCHANGED <<entrada, salida, respuestas, ponderaciones, score_rows,
                   resultado_rows, invocaciones>>

\* Lines 188-200.
ObtenerRespuestas(p) ==
    LET pr == procs[p] IN
    /\ pr.pc = "cs_respuestas"
    /\ \/ /\ LET rs == RespuestasDe(pr.id_evaluacion)
             IN  IF rs = <<>>
                 THEN Poner(p, FinEspecifico(pr, Err400("sin_respuestas")))
                 ELSE Poner(p, [pr EXCEPT !.respuestas = rs, !.i = 1,
                                          !.pc = "cs_pregunta"])
          /\ UNCHANGED fallos
       \/ /\ PuedeFallar
          /\ fallos' = fallos + 1
          /\ Poner(p, FinEspecifico(ConFallo(pr), Err500))
    /\ UNCHANGED <<entrada, salida, respuestas, ponderaciones, score_rows,
                   resultado_rows, invocaciones>>

\* Lines 203-211.
ObtenerPregunta(p) ==
    LET pr == procs[p] IN
    /\ pr.pc = "cs_pregunta"
    /\ \/ /\ IF Coincide(Pregunta(pr.respuestas[pr.i].id_pregunta),
                         pr.id_capacidad, pr.id_dimension)
             THEN Poner(p, [pr EXCEPT !.pc = "cs_opcion"])
             ELSE Poner(p, Avanzar(pr))
          /\ UNCHANGED fallos
       \/ /\ PuedeFallar
          /\ fallos' = fallos + 1
          /\ Poner(p, FinEspecifico(ConFallo(pr), Err500))
    /\ UNCHANGED <<entrada, salida, respuestas, ponderaciones, score_rows,
                   resultado_rows, invocaciones>>

\* Lines 213-215.
ObtenerOpcion(p) ==
    LET pr == procs[p] IN
    /\ pr.pc = "cs_opcion"
    /\ \/ /\ Poner(p, [pr EXCEPT !.valor_base = ValorBase(pr.respuestas[pr.i].id_opcion),
                                 !.pc = "cs_ponderacion"])
          /\ UNCHANGED fallos
       \/ /\ PuedeFallar
          /\ fallos' = fallos + 1
          /\ Poner(p, FinEspecifico(ConFallo(pr), Err500))
    /\ UNCHANGED <<entrada, salida, respuestas, ponderaciones, score_rows,
                   resultado_rows, invocaciones>>

\* obtener_ponderacion (lines 81-95) and lines 217-239: a failed request is
\* logged and answered with None.
ObtenerPonderacion(p) ==
    LET pr == procs[p] IN
    /\ pr.pc = "cs_ponderacion"
    /\ \/ /\ Poner(p, Avanzar(Acumular(pr,
                       Peso(ponderaciones[pr.respuestas[pr.i].id_pregunta]))))
          /\ UNCHANGED fallos
       \/ /\ PuedeFallar
          /\ fallos' = fallos + 1
          /\ Poner(p, Avanzar(Acumular(ConFallo(pr), Peso(None))))
    /\ UNCHANGED <<entrada, salida, respuestas, ponderaciones, score_rows,
                   resultado_rows, invocaciones>>

\* guardar_score without the branch of line 134: always on to the INSERT.
GuardarScoreSiempreInserta(p) ==
    LET pr == procs[p] IN
    /\ pr.pc = "gs_get"
    /\ \/ /\ Poner(p, [pr EXCEPT !.pc = "gs_post"])
          /\ UNCHANGED fallos
       \/ /\ PuedeFallar
          /\ fallos' = fallos + 1
          /\ Poner(p, FinEspecifico(ConFallo(pr), Err500))
    /\ UNCHANGED <<entrada, salida, respuestas, ponderaciones, score_rows,
                   resultado_rows, invocaciones>>

\* guardar_score, lines 119-125 and 134.
GuardarScoreGet(p) ==
    LET pr == procs[p] IN
    /\ pr.pc = "gs_get"
    /\ \/ /\ LET items == ScoresDeClave(pr.id_evaluacion, pr.id_capacidad,
                                        pr.id_dimension)
             IN  IF items # {}
                 THEN Poner(p, [pr EXCEPT !.id_existente = PrimerIdScore(items),
                                          !.pc = "gs_put"])
                 ELSE Poner(p, [pr EXCEPT !.pc = "gs_post"])
          /\ UNCHANGED fallos
       \/ /\ PuedeFallar
          /\ fallos' = fallos + 1
          /\ Poner(p, FinEspecifico(ConFallo(pr), Err500))
    /\ UNCHANGED <<entrada, salida, respuestas, ponderaciones, score_rows,
                   resultado_rows, invocaciones>>

\* guardar_score, lines 135-138, then lines 256-270.
GuardarScorePut(p) ==
    LET pr == procs[p] IN
    /\ pr.pc = "gs_put"
    /\ \/ /\ score_rows' = {r \in score_rows : r.id_score # pr.id_existente}
                               \cup {FilaScore(pr, pr.id_existente,
                                               EscriturasScore(pr.id_existente) + 1)}
          /\ Poner(p, FinEspecifico(pr, Ok200(RespuestaScore(pr))))
          /\ UNCHANGED fallos
       \/ /\ PuedeFallar
          /\ fallos' = fallos + 1
          /\ Poner(p, FinEspecifico(ConFallo(pr), Err500))
          /\ UNCHANGED score_rows
    /\ UNCHANGED <<entrada, salida, respuestas, ponderaciones, resultado_rows,
                   invocaciones>>

\* guardar_score, lines 139-142, then lines 256-270.
GuardarScorePost(p) ==
    LET pr == procs[p] IN
    /\ pr.pc = "gs_post"
    /\ \/ /\ score_rows' = score_rows \cup {FilaScore(pr, NuevoIdScore, 1)}
          /\ Poner(p, FinEspecifico(pr, Ok200(RespuestaScore(pr))))
          /\ UNCHANGED fallos
       \/ /\ PuedeFallar
          /\ fallos' = fallos + 1
          /\ Poner(p, FinEspecifico(ConFallo(pr), Err500))
          /\ UNCHANGED score_rows
    /\ UNCHANGED <<entrada, salida, respuestas, ponderaciones, resultado_rows,
                   invocaciones>>

PasoEspecifico(p) ==
    \/ ObtenerEvaluacion(p)
    \/ ObtenerRespuestas(p)
    \/ ObtenerPregunta(p)
    \/ ObtenerOpcion(p)
    \/ ObtenerPonderacion(p)
    \/ GuardarScoreGet(p)
    \/ GuardarScorePut(p)
    \/ GuardarScorePost(p)

(***************************************************************************)
(* calcular_todos_scores (computeAllScores).                               *)
(***************************************************************************)
\* The nested loops of lines 311 and 315 as one list of pairs.
Pares(capacidades, dimensiones) ==
    [n \in 1..(Len(capacidades) * Len(dimensiones)) |->
        << capacidades[((n - 1) \div Len(dimensiones)) + 1],
           dimensiones[((n - 1) % Len(dimensiones)) + 1] >>]

IniciarTodos(p) ==
    /\ procs[p].pc = "libre"
    /\ invocaciones < MaxInvocaciones
    /\ \E e \in Evaluaciones :
           Poner(p, [ProcInicial EXCEPT !.op = "todos", !.pc = "ca_capacidades",
                                        !.id_evaluacion = e])
    /\ invocaciones' = invocaciones + 1
    /\ UNCHANGED <<entrada, salida, respuestas, ponderaciones, score_rows,
                   resultado_rows, fallos>>

\* Lines 297-299; a failure is wrapped by lines 353-358.
ObtenerCapacidades(p) ==
    LET pr == procs[p] IN
    /\ pr.pc = "ca_capacidades"
    /\ \/ /\ Poner(p, [pr EXCEPT !.pc = "ca_dimensiones"])
          /\ UNCHANGED fallos
       \/ /\ PuedeFallar
          /\ fallos' = fallos + 1
          /\ Poner(p, FinHandler(ConFallo(pr), Err500))
    /\ UNCHANGED <<entrada, salida, respuestas, ponderaciones, score_rows,
                   resultado_rows, invocaciones>>

\* Lines 301-317.
ObtenerDimensiones(p) ==
    LET pr == procs[p] IN
    /\ pr.pc = "ca_dimensiones"
    /\ \/ /\ LET pares == Pares(CapacidadesActivas, DimensionesActivas)
             IN  IF pares = <<>>
                 THEN Poner(p, FinHandler(pr, Ok200([scores_calculados |-> 0,
                                                     scores_detalle |-> <<>>])))
                 ELSE Poner(p, [pr EXCEPT !.pares = pares, !.k = 1,
                                          !.id_capacidad = pares[1][1],
                                          !.id_dimension = pares[1][2],
                                          !.pc = "cs_evaluacion"])
          /\ UNCHANGED fallos
       \/ /\ PuedeFallar
          /\ fallos' = fallos + 1
          /\ Poner(p, FinHandler(ConFallo(pr), Err500))
    /\ UNCHANGED <<entrada, salida, respuestas, ponderaciones, score_rows,
                   resultado_rows, invocaciones>>

PasoTodos(p) ==
    \/ ObtenerCapacidades(p)
    \/ ObtenerDimensiones(p)

(***************************************************************************)
(* ejecutar_motor_reglas (runRuleEngine) and guardar_resultado_regla.      *)
(***************************************************************************)
\* The next turn of the loop of line 349, or lines 394-409.
SiguienteRegla(pr) ==
    IF pr.j < Len(pr.reglas)
    THEN [pr EXCEPT !.j = @ + 1, !.condiciones = <<>>, !.id_existente = 0,
                    !.pc = "rr_condiciones"]
    ELSE FinHandler(pr, Ok200([total_reglas |-> Len(pr.resultados),
                               reglas_cumplidas |-> pr.reglas_cumplidas,
                               reglas_no_cumplidas |->
                                   Len(pr.resultados) - pr.reglas_cumplidas,
                               resultados |-> pr.resultados]))

\* Lines 379-390.
Contar(pr) ==
    [pr EXCEPT !.reglas_cumplidas = IF pr.cumple THEN @ + 1 ELSE @,
               !.resultados =
                   Append(@, [id_regla |-> pr.reglas[pr.j],
                              fl_cumple |-> IF pr.cumple THEN "Y" ELSE "N",
                              num_condiciones |-> Len(pr.condiciones),
                              condiciones_cumplidas |->
                                  IF "grupos_cumplidos" \in DOMAIN pr.detalle
                                  THEN pr.detalle.grupos_cumplidos ELSE 0])]

\* json.dumps(detalle_json), line 266: the trace as the text the store keeps.
json_dumps(objeto) == [texto_de |-> objeto]

\* json.loads(...), lines 445 and 487: the object a stored text stands for.
json_loads(texto) == texto.texto_de

\* How often the rows with this id were written so far.
EscriturasResultado(id_resultado_regla) ==
    LET rows == {r \in resultado_rows : r.id_resultado_regla = id_resultado_regla}
    IN  IF rows = {} THEN 0 ELSE (CHOOSE r \in rows : TRUE).h_escrituras

\* The payload of lines 261-267 with fl_cumple always "N".
FilaResultadoNoCumple(pr, id_resultado_regla, h_escrituras) ==
    [id_resultado_regla |-> id_resultado_regla, id_evaluacion |-> pr.id_evaluacion,
     id_regla |-> pr.reglas[pr.j],
     fl_cumple |-> "N",
     valor_numerico |-> None, detalle_json |-> json_dumps(pr.detalle),
     h_scores |-> pr.scores, h_escrituras |-> h_escrituras]

\* The payload of lines 261-267 as the row it becomes.  h_scores and
\* h_escrituras are history fields: the score map the verdict was computed
\* from, and how often the row was written.
FilaResultado(pr, id_resultado_regla, h_escrituras) ==
    [id_resultado_regla |-> id_resultado_regla, id_evaluacion |-> pr.id_evaluacion,
     id_regla |-> pr.reglas[pr.j],
     fl_cumple |-> IF pr.cumple THEN "Y" ELSE "N",
     valor_numerico |-> None, detalle_json |-> json_dumps(pr.detalle),
     h_scores |-> pr.scores, h_escrituras |-> h_escrituras]

IniciarMotor(p) ==
    /\ procs[p].pc = "libre"
    /\ invocaciones < MaxInvocaciones
    /\ \E e \in Evaluaciones :
           Poner(p, [ProcInicial EXCEPT !.op = "motor", !.pc = "rr_evaluacion",
                                        !.id_evaluacion = e])
    /\ invocaciones' = invocaciones + 1
    /\ UNCHANGED <<entrada, salida, respuestas, ponderaciones, score_rows,
                   resultado_rows, fallos>>

\* Lines 311-319 without the check of the version.
TrasLaEvaluacionSinControl(pr, v) ==
    [pr EXCEPT !.id_version = v, !.pc = "rr_scores"]

\* Lines 311-319: the version of the evaluation, or the error of line 314.
TrasLaEvaluacion(pr, v) ==
    IF v = None
    THEN FinHandler(pr, Err400("sin_version"))
    ELSE [pr EXCEPT !.id_version = v, !.pc = "rr_scores"]

\* Lines 309-319; a failure is wrapped by lines 413-418.
MotorEvaluacion(p) ==
    LET pr == procs[p] IN
    /\ pr.pc = "rr_evaluacion"
    /\ \/ /\ Poner(p, TrasLaEvaluacion(pr, VersionDe(pr.id_evaluacion)))
          /\ UNCHANGED fallos
       \/ /\ PuedeFallar
          /\ fallos' = fallos + 1
          /\ Poner(p, FinHandler(ConFallo(pr), Err500))
    /\ UNCHANGED <<entrada, salida, respuestas, ponderaciones, score_rows,
                   resultado_rows, invocaciones>>

\* Lines 321-328 without the check of the score map.
TrasLosScoresSinControl(pr) == [pr EXCEPT !.pc = "rr_reglas"]

\* Lines 321-328.
TrasLosScores(pr) ==
    IF DOMAIN pr.scores = {}
    THEN FinHandler(pr, Err400("sin_scores"))
    ELSE [pr EXCEPT !.pc = "rr_reglas"]

\* obtener_scores_evaluacion (lines 85-107): a failed request is logged and
\* answered with {}.
MotorScores(p) ==
    LET pr == procs[p] IN
    /\ pr.pc = "rr_scores"
    /\ \/ /\ Poner(p, TrasLosScores([pr EXCEPT !.scores = ScoreDict(pr.id_evaluacion)]))
          /\ UNCHANGED fallos
       \/ /\ PuedeFallar
          /\ fallos' = fallos + 1
          /\ Poner(p, TrasLosScores([ConFallo(pr) EXCEPT !.scores = <<>>]))
    /\ UNCHANGED <<entrada, salida, respuestas, ponderaciones, score_rows,
                   resultado_rows, invocaciones>>

\* Lines 330-347 with an empty rule set answered as an error.
TrasLasReglasError(pr) ==
    IF pr.reglas = <<>>
    THEN FinHandler(pr, Err400("sin_reglas"))
    ELSE [pr EXCEPT !.j = 1, !.pc = "rr_condiciones"]

\* Lines 330-347.
TrasLasReglas(pr) ==
    IF pr.reglas = <<>>
    THEN FinHandler(pr, Ok200([total_reglas |-> 0, reglas_cumplidas |-> 0,
                               reglas_no_cumplidas |-> 0, resultados |-> <<>>]))
    ELSE [pr EXCEPT !.j = 1, !.pc = "rr_condiciones"]

\* obtener_reglas_activas (lines 110-122): a failed request is logged and
\* answered with [].
MotorReglas(p) ==
    LET pr == procs[p] IN
    /\ pr.pc = "rr_reglas"
    /\ \/ /\ Poner(p, TrasLasReglas([pr EXCEPT !.reglas = ReglasActivas(pr.id_version)]))
          /\ UNCHANGED fallos
       \/ /\ PuedeFallar
          /\ fallos' = fallos + 1
          /\ Poner(p, TrasLasReglas([ConFallo(pr) EXCEPT !.reglas = <<>>]))
    /\ UNCHANGED <<entrada, salida, respuestas, ponderaciones, score_rows,
                   resultado_rows, invocaciones>>

\* Lines 358-369 without the continue of line 363.
TrasLasCondicionesSinSalto(pr) ==
    LET r == evaluar_condiciones(pr.condiciones, pr.scores)
    IN  [pr EXCEPT !.cumple = r.cumple, !.detalle = r.detalle, !.pc = "gr_get"]

\* Lines 358-369.
TrasLasCondiciones(pr) ==
    IF pr.condiciones = <<>>
    THEN SiguienteRegla(pr)
    ELSE LET r == evaluar_condiciones(pr.condiciones, pr.scores)
         IN  [pr EXCEPT !.cumple = r.cumple, !.detalle = r.detalle, !.pc = "gr_get"]

\* obtener_condiciones_regla (lines 125-138): a failed request is logged and
\* answered with [].
MotorCondiciones(p) ==
    LET pr == procs[p] IN
    /\ pr.pc = "rr_condiciones"
    /\ \/ /\ Poner(p, TrasLasCondiciones(
                   [pr EXCEPT !.condiciones = Ordenar(CondicionesTabla(pr.reglas[pr.j]))]))
          /\ UNCHANGED fallos
       \/ /\ PuedeFallar
          /\ fallos' = fallos + 1
          /\ Poner(p, TrasLasCondiciones([ConFallo(pr) EXCEPT !.condiciones = <<>>]))
    /\ UNCHANGED <<entrada, salida, respuestas, ponderaciones, score_rows,
                   resultado_rows, invocaciones>>

\* guardar_resultado_regla, lines 253-259 and 269.
GuardarResultadoGet(p) ==
    LET pr == procs[p] IN
    /\ pr.pc = "gr_get"
    /\ \/ /\ LET items == ResultadosDeClave(pr.id_evaluacion, pr.reglas[pr.j])
             IN  IF items # {}
                 THEN Poner(p, [pr EXCEPT !.id_existente = PrimerIdResultado(items),
                                          !.pc = "gr_put"])
                 ELSE Poner(p, [pr EXCEPT !.pc = "gr_post"])
          /\ UNCHANGED fallos
       \/ /\ PuedeFallar
          /\ fallos' = fallos + 1
          /\ Poner(p, FinHandler(ConFallo(pr), Err500))
    /\ UNCHANGED <<entrada, salida, respuestas, ponderaciones, score_rows,
                   resultado_rows, invocaciones>>

\* guardar_resultado_regla, lines 270-273, then lines 379-392.
GuardarResultadoPut(p) ==
    LET pr == procs[p] IN
    /\ pr.pc = "gr_put"
    /\ \/ /\ resultado_rows' =
                 {r \in resultado_rows : r.id_resultado_regla # pr.id_existente}
                     \cup {FilaResultado(pr, pr.id_existente,
                                           EscriturasResultado(pr.id_existente) + 1)}
          /\ Poner(p, SiguienteRegla(Contar(pr)))
          /\ UNCHANGED fallos
       \/ /\ PuedeFallar
          /\ fallos' = fallos + 1
          /\ Poner(p, FinHandler(ConFallo(pr), Err500))
          /\ UNCHANGED resultado_rows
    /\ UNCHANGED <<entrada, salida, respuestas, ponderaciones, score_rows,
                   invocaciones>>

\* guardar_resultado_regla, lines 274-277, then lines 379-392.
GuardarResultadoPost(p) ==
    LET pr == procs[p] IN
    /\ pr.pc = "gr_post"
    /\ \/ /\ resultado_rows' = resultado_rows \cup {FilaResultado(pr, NuevoIdResultado, 1)}
          /\ Poner(p, SiguienteRegla(Contar(pr)))
          /\ UNCHANGED fallos
       \/ /\ PuedeFallar
          /\ fallos' = fallos + 1
          /\ Poner(p, FinHandler(ConFallo(pr), Err500))
          /\ UNCHANGED resultado_rows
    /\ UNCHANGED <<entrada, salida, respuestas, ponderaciones, score_rows,
                   invocaciones>>

PasoMotor(p) ==
    \/ MotorEvaluacion(p)
    \/ MotorScores(p)
    \/ MotorReglas(p)
    \/ MotorCondiciones(p)
    \/ GuardarResultadoGet(p)
    \/ GuardarResultadoPut(p)
    \/ GuardarResultadoPost(p)

(***************************************************************************)
(* obtener_resumen_scores (the score summary).  Scores are in thousandths; *)
(* a mean is kept as the pair of its numerator and denominator.            *)
(***************************************************************************)
RECURSIVE SumaDeScores(_)
SumaDeScores(rows) ==
    IF rows = {} THEN 0
    ELSE LET r == CHOOSE x \in rows : TRUE
         IN  r.score + SumaDeScores(rows \ {r})

\* Lines 381-393: the rows of one capability.
FilasDeCapacidad(rows, c) == {r \in rows : r.id_capacidad = c}

\* The global score as the plain mean of all the rows.
MediaPlana(rows) == [num |-> SumaDeScores(rows), den |-> Cardinality(rows)]

\* Lines 396-410: suma_global / len(por_capacidad), where suma_global adds
\* sum(scores) / len(scores) of every capability.
RECURSIVE SumaDeMedias(_, _)
SumaDeMedias(rows, caps) ==
    IF caps = {} THEN [num |-> 0, den |-> 1]
    ELSE LET c == CHOOSE x \in caps : TRUE
             resto == SumaDeMedias(rows, caps \ {c})
             f == FilasDeCapacidad(rows, c)
         IN  [num |-> resto.num * Cardinality(f) + SumaDeScores(f) * resto.den,
              den |-> resto.den * Cardinality(f)]

MediaDeMedias(rows) ==
    LET caps == {r.id_capacidad : r \in rows}
        m == SumaDeMedias(rows, caps)
    IN  [num |-> m.num, den |-> m.den * Cardinality(caps)]

\* round(x, 2) of a mean computed in doubles (lines 403 and 414).  Where the
\* exact mean lies halfway between two hundredths the double lies on either
\* side of it, depending on the operands: both hundredths are possible.
Redondeos(num, den) ==
    LET q == num \div (10 * den)
        r == num % (10 * den)
    IN  IF 2 * r < 10 * den THEN {10 * q}
        ELSE IF 2 * r > 10 * den THEN {10 * (q + 1)}
        ELSE {10 * q, 10 * (q + 1)}

\* sorted(resumen_capacidades, key=id_capacidad), line 415.
RECURSIVE PorCapacidad(_, _, _)
PorCapacidad(rows, caps, promedios) ==
    IF caps = {} THEN <<>>
    ELSE LET c == CHOOSE x \in caps : \A y \in caps : x <= y
         IN  <<[id_capacidad |-> c,
                num_dimensiones |-> Cardinality(FilasDeCapacidad(rows, c)),
                score_promedio |-> promedios[c]]>>
             \o PorCapacidad(rows, caps \ {c}, promedios)

\* A call of obtener_resumen_scores (line 362).
IniciarResumen(p) ==
    /\ procs[p].pc = "libre"
    /\ invocaciones < MaxInvocaciones
    /\ \E e \in Evaluaciones :
           Poner(p, [ProcInicial EXCEPT !.op = "resumen", !.pc = "rs_get",
                                        !.id_evaluacion = e])
    /\ invocaciones' = invocaciones + 1
    /\ UNCHANGED <<entrada, salida, respuestas, ponderaciones, score_rows,
                   resultado_rows, fallos>>

\* Lines 369-416; a failure is wrapped by lines 418-423.
ResumenGet(p) ==
    LET pr == procs[p]
        rows == {r \in score_rows : r.id_evaluacion = pr.id_evaluacion}
        caps == {r.id_capacidad : r \in rows}
    IN
    /\ pr.pc = "rs_get"
    /\ \/ /\ IF rows = {}
             THEN Poner(p, FinHandler(pr, Ok200([total_scores |-> 0,
                                                 score_global |-> 0,
                                                 por_capacidad |-> <<>>])))
             ELSE \E promedios \in
                      [caps -> UNION {Redondeos(
                                         SumaDeScores(FilasDeCapacidad(rows, c)),
                                         Cardinality(FilasDeCapacidad(rows, c)))
                                      : c \in caps}] :
                  \E score_global \in Redondeos(MediaDeMedias(rows).num,
                                                MediaDeMedias(rows).den) :
                     /\ \A c \in caps :
                           promedios[c] \in
                               Redondeos(SumaDeScores(FilasDeCapacidad(rows, c)),
                                         Cardinality(FilasDeCapacidad(rows, c)))
                     /\ Poner(p, FinHandler(pr,
                            Ok200([total_scores |-> Cardinality(rows),
                                   score_global |-> score_global,
                                   por_capacidad |->
                                       PorCapacidad(rows, caps, promedios)])))
          /\ UNCHANGED fallos
       \/ /\ PuedeFallar
          /\ fallos' = fallos + 1
          /\ Poner(p, FinHandler(ConFallo(pr), Err500))
    /\ UNCHANGED <<entrada, salida, respuestas, ponderaciones, score_rows,
                   resultado_rows, invocaciones>>

(***************************************************************************)
(* limpiar_scores and limpiar_resultados_reglas: every row of the          *)
(* evaluation is deleted by a request of its own.  ids is the list of the  *)
(* GET, i the turn of the loop, eliminados the counter of the handler;     *)
(* h_intentados is a history field, the ids a DELETE was sent for.         *)
(***************************************************************************)
\* The items of a filtered GET as the list of their ids, in ascending order.
RECURSIVE IdsEnOrden(_)
IdsEnOrden(S) ==
    IF S = {} THEN <<>>
    ELSE LET m == CHOOSE x \in S : \A y \in S : x <= y
         IN  <<m>> \o IdsEnOrden(S \ {m})

\* calculo_scores.py, lines 452-457, and motor_reglas.py, lines 529-534.
RespuestaLimpiar(pr) ==
    IF pr.op = "limpiar_scores"
    THEN [ok |-> TRUE, id_evaluacion |-> pr.id_evaluacion,
          scores_eliminados |-> pr.eliminados]
    ELSE [ok |-> TRUE, id_evaluacion |-> pr.id_evaluacion,
          resultados_eliminados |-> pr.eliminados]

\* The next turn of the loop over the listed rows, or the return.
SiguienteBorrado(pr) ==
    IF pr.i < Len(pr.ids)
    THEN [pr EXCEPT !.i = @ + 1]
    ELSE FinHandler(pr, Ok200(RespuestaLimpiar(pr)))

\* The loop starts on the rows the GET listed.
TrasElListado(pr, ids, pc) ==
    IF ids = <<>>
    THEN FinHandler(pr, Ok200(RespuestaLimpiar(pr)))
    ELSE [pr EXCEPT !.ids = ids, !.i = 1, !.pc = pc]

\* The DELETE went through: eliminados += 1.
TrasElBorrado(pr) ==
    SiguienteBorrado([pr EXCEPT !.eliminados = @ + 1,
                                !.h_intentados = @ \cup {pr.ids[pr.i]}])

\* The inner except with a raise: a failed DELETE ends the handler.
TrasElFalloDeBorradoAborta(pr) ==
    FinHandler([ConFallo(pr) EXCEPT !.h_intentados = @ \cup {pr.ids[pr.i]}], Err500)

\* The inner except: a failed DELETE is logged and the loop goes on.
TrasElFalloDeBorrado(pr) ==
    SiguienteBorrado([ConFallo(pr) EXCEPT !.h_intentados = @ \cup {pr.ids[pr.i]}])

\* A call of limpiar_scores (calculo_scores.py, line 428).
IniciarLimpiarScores(p) ==
    /\ procs[p].pc = "libre"
    /\ invocaciones < MaxInvocaciones
    /\ \E e \in Evaluaciones :
           Poner(p, [ProcInicial EXCEPT !.op = "limpiar_scores", !.pc = "ls_get",
                                        !.id_evaluacion = e])
    /\ invocaciones' = invocaciones + 1
    /\ UNCHANGED <<entrada, salida, respuestas, ponderaciones, score_rows,
                   resultado_rows, fallos>>

\* calculo_scores.py, lines 436-438; a failure is wrapped by lines 459-464.
LimpiarScoresGet(p) ==
    LET pr == procs[p] IN
    /\ pr.pc = "ls_get"
    /\ \/ /\ Poner(p, TrasElListado(pr,
                   IdsEnOrden({r.id_score : r \in
                       {x \in score_rows : x.id_evaluacion = pr.id_evaluacion}}),
                   "ls_delete"))
          /\ UNCHANGED fallos
       \/ /\ PuedeFallar
          /\ fallos' = fallos + 1
          /\ Poner(p, FinHandler(ConFallo(pr), Err500))
    /\ UNCHANGED <<entrada, salida, respuestas, ponderaciones, score_rows,
                   resultado_rows, invocaciones>>

\* calculo_scores.py, lines 441-448: one turn of the loop.
LimpiarScoresDelete(p) ==
    LET pr == procs[p] IN
    /\ pr.pc = "ls_delete"
    /\ \/ /\ score_rows' = {r \in score_rows : r.id_score # pr.ids[pr.i]}
          /\ Poner(p, TrasElBorrado(pr))
          /\ UNCHANGED fallos
       \/ /\ PuedeFallar
          /\ fallos' = fallos + 1
          /\ Poner(p, TrasElFalloDeBorrado(pr))
          /\ UNCHANGED score_rows
    /\ UNCHANGED <<entrada, salida, respuestas, ponderaciones, resultado_rows,
                   invocaciones>>

\* A call of limpiar_resultados_reglas (motor_reglas.py, line 505).
IniciarLimpiarResultados(p) ==
    /\ procs[p].pc = "libre"
    /\ invocaciones < MaxInvocaciones
    /\ \E e \in Evaluaciones :
           Poner(p, [ProcInicial EXCEPT !.op = "limpiar_resultados", !.pc = "lr_get",
                                        !.id_evaluacion = e])
    /\ invocaciones' = invocaciones + 1
    /\ UNCHANGED <<entrada, salida, respuestas, ponderaciones, score_rows,
                   resultado_rows, fallos>>

\* motor_reglas.py, lines 513-515; a failure is wrapped by lines 536-541.
LimpiarResultadosGet(p) ==
    LET pr == procs[p] IN
    /\ pr.pc = "lr_get"
    /\ \/ /\ Poner(p, TrasElListado(pr,
                   IdsEnOrden({r.id_resultado_regla : r \in
                       {x \in resultado_rows : x.id_evaluacion = pr.id_evaluacion}}),
                   "lr_delete"))
          /\ UNCHANGED fallos
       \/ /\ PuedeFallar
          /\ fallos' = fallos + 1
          /\ Poner(p, FinHandler(ConFallo(pr), Err500))
    /\ UNCHANGED <<entrada, salida, respuestas, ponderaciones, score_rows,
                   resultado_rows, invocaciones>>

\* motor_reglas.py, lines 518-525: one turn of the loop.
LimpiarResultadosDelete(p) ==
    LET pr == procs[p] IN
    /\ pr.pc = "lr_delete"
    /\ \/ /\ resultado_rows' =
                 {r \in resultado_rows : r.id_resultado_regla # pr.ids[pr.i]}
          /\ Poner(p, TrasElBorrado(pr))
          /\ UNCHANGED fallos
       \/ /\ PuedeFallar
          /\ fallos' = fallos + 1
          /\ Poner(p, TrasElFalloDeBorrado(pr))
          /\ UNCHANGED resultado_rows
    /\ UNCHANGED <<entrada, salida, respuestas, ponderaciones, score_rows,
                   invocaciones>>

PasoLimpiar(p) ==
    \/ LimpiarScoresGet(p)
    \/ LimpiarScoresDelete(p)
    \/ LimpiarResultadosGet(p)
    \/ LimpiarResultadosDelete(p)

(***************************************************************************)
(* obtener_insights_ejecutivos (the insights operation).  filas is the     *)
(* list of the GET, i the turn of the loop, insights the list built so far. *)
(***************************************************************************)
\* The items of a filtered GET of ce_resultado_regla, by ascending id.
RECURSIVE FilasEnOrden(_)
FilasEnOrden(S) ==
    IF S = {} THEN <<>>
    ELSE LET m == CHOOSE x \in S :
                     \A y \in S : x.id_resultado_regla <= y.id_resultado_regla
         IN  <<m>> \o FilasEnOrden(S \ {m})

\* Line 471 without the filter fl_cumple=Y.
FilasDeLaEvaluacion(id_evaluacion) ==
    {r \in resultado_rows : r.id_evaluacion = id_evaluacion}

\* Line 471: GET /ce_resultado_regla/?id_evaluacion=...&fl_cumple=Y
FilasCumplidas(id_evaluacion) ==
    {r \in resultado_rows : r.id_evaluacion = id_evaluacion /\ r.fl_cumple = "Y"}

\* Lines 482-488: the entry of one result row.
Insight(regla, resultado) ==
    [codigo |-> regla.codigo, nombre |-> regla.nombre,
     descripcion |-> regla.descripcion, tipo |-> regla.tipo_regla,
     detalle |-> json_loads(resultado.detalle_json)]

\* Lines 490-494.
RespuestaInsights(pr) ==
    [id_evaluacion |-> pr.id_evaluacion, num_insights |-> Len(pr.insights),
     insights |-> pr.insights]

\* A call of obtener_insights_ejecutivos (line 465).
IniciarInsights(p) ==
    /\ procs[p].pc = "libre"
    /\ invocaciones < MaxInvocaciones
    /\ \E e \in Evaluaciones :
           Poner(p, [ProcInicial EXCEPT !.op = "insights", !.pc = "in_get",
                                        !.id_evaluacion = e])
    /\ invocaciones' = invocaciones + 1
    /\ UNCHANGED <<entrada, salida, respuestas, ponderaciones, score_rows,
                   resultado_rows, fallos>>

\* Lines 470-476; a failure is wrapped by lines 496-501.
InsightsGet(p) ==
    LET pr == procs[p]
        filas == FilasEnOrden(FilasCumplidas(pr.id_evaluacion))
    IN
    /\ pr.pc = "in_get"
    /\ \/ /\ IF filas = <<>>
             THEN Poner(p, FinHandler(pr, Ok200(RespuestaInsights(pr))))
             ELSE Poner(p, [pr EXCEPT !.filas = filas, !.i = 1, !.pc = "in_regla"])
          /\ UNCHANGED fallos
       \/ /\ PuedeFallar
          /\ fallos' = fallos + 1
          /\ Poner(p, FinHandler(ConFallo(pr), Err500))
    /\ UNCHANGED <<entrada, salida, respuestas, ponderaciones, score_rows,
                   resultado_rows, invocaciones>>

\* Lines 476-488: one turn of the loop, then the next turn or lines 490-494.
InsightsRegla(p) ==
    LET pr == procs[p] IN
    /\ pr.pc = "in_regla"
    /\ \/ /\ LET q == [pr EXCEPT !.insights =
                          Append(@, Insight(ReglaTabla(pr.filas[pr.i].id_regla),
                                            pr.filas[pr.i]))]
             IN  IF q.i < Len(q.filas)
                 THEN Poner(p, [q EXCEPT !.i = @ + 1])
                 ELSE Poner(p, FinHandler(q, Ok200(RespuestaInsights(q))))
          /\ UNCHANGED fallos
       \/ /\ PuedeFallar
          /\ fallos' = fallos + 1
          /\ Poner(p, FinHandler(ConFallo(pr), Err500))
    /\ UNCHANGED <<entrada, salida, respuestas, ponderaciones, score_rows,
                   resultado_rows, invocaciones>>

PasoInsights(p) == InsightsGet(p) \/ InsightsRegla(p)

\* The caller has its answer; the next request may come in.
Retornar(p) ==
    /\ procs[p].pc = "fin"
    /\ Poner(p, ProcInicial)
    /\ UNCHANGED <<entrada, salida, respuestas, ponderaciones, score_rows,
                   resultado_rows, fallos, invocaciones>>

(***************************************************************************)
(* Direct calls of evaluar_condiciones: the argument lists are drawn from  *)
(* CondPool, the score maps from MapasDeScores.                            *)
(***************************************************************************)
KA == <<1, 1>>
KB == <<2, 1>>

Formas ==
    { [id_capacidad |-> 1, id_dimension |-> 1, operador |-> ">=",
       valor1 |-> 5 * Escala, valor2 |-> None],
      [id_capacidad |-> 2, id_dimension |-> 1, operador |-> ">=",
       valor1 |-> 5 * Escala, valor2 |-> None],
      [id_capacidad |-> 1, id_dimension |-> 1, operador |-> "BETWEEN",
       valor1 |-> 5 * Escala, valor2 |-> None] }

CondPool ==
    { [orden |-> 0, grupo |-> g, conector |-> c, id_capacidad |-> f.id_capacidad,
       id_dimension |-> f.id_dimension, operador |-> f.operador,
       valor1 |-> f.valor1, valor2 |-> f.valor2] :
         g \in {1, 2}, c \in {"AND", "OR", "None"}, f \in Formas }

MapasDeScores ==
    { (KA :> 8 * Escala) @@ (KB :> 3 * Escala),
      (KA :> 8 * Escala),
      (KA :> 3 * Escala) @@ (KB :> 8 * Escala) }

RECURSIVE Listas(_)
Listas(n) ==
    IF n = 0 THEN {<<>>}
    ELSE LET cortas == Listas(n - 1)
         IN  cortas \cup { Append(l, c) : l \in {x \in cortas : Len(x) = n - 1},
                                          c \in CondPool }

\* The rows as obtener_condiciones_regla hands them over: orden = position.
Numerar(l) == [i \in 1..Len(l) |-> [l[i] EXCEPT !.orden = i]]

Evaluar ==
    /\ ~salida.hecho
    /\ LET r == evaluar_condiciones(entrada.condiciones, entrada.scores)
       IN  salida' = [hecho |-> TRUE, cumple |-> r.cumple, detalle |-> r.detalle]
    /\ UNCHANGED <<entrada, respuestas, ponderaciones, score_rows, resultado_rows,
                   procs, fallos, invocaciones>>

\* A direct call of evaluar_operador with the arguments of entrada.
EvaluarOperador ==
    /\ ~salida.hecho
    /\ salida' = [hecho |-> TRUE,
                  valor |-> evaluar_operador(entrada.valor, entrada.operador,
                                             entrada.valor1, entrada.valor2)]
    /\ UNCHANGED <<entrada, respuestas, ponderaciones, score_rows, resultado_rows,
                   procs, fallos, invocaciones>>

\* The argument list in another order: the rows of one GET of
\* ce_condicion_regla as the store may return them.
PermutacionesDe(l) ==
    { [i \in 1..Len(l) |-> l[f[i]]] : f \in Permutations(1..Len(l)) }

\* ejecutar_motor_reglas, lines 352 and 366, for one rule: the condition rows
\* are loaded and sorted by obtener_condiciones_regla and handed to
\* evaluar_condiciones; once for the rows as entrada.condiciones lists them,
\* once for the same rows in the order of entrada.permutadas.
EvaluarRegla ==
    /\ ~salida.hecho
    /\ salida' = [hecho |-> TRUE,
                  cumple |-> evaluar_condiciones(Ordenar(entrada.condiciones),
                                                 entrada.scores).cumple,
                  cumple_permutadas |->
                      evaluar_condiciones(Ordenar(entrada.permutadas),
                                          entrada.scores).cumple]
    /\ UNCHANGED <<entrada, respuestas, ponderaciones, score_rows, resultado_rows,
                   procs, fallos, invocaciones>>

(***************************************************************************)
(* Specifications.                                                         *)
(***************************************************************************)
TodoLibre == [p \in Procs |-> ProcInicial]

\* The answers of evaluation 1 in question order: f[q] = 0 leaves question q
\* unanswered, otherwise it is the chosen option.
RespuestasDeEleccion(f) ==
    LET Fila(q) == IF f[q] = 0 THEN <<>>
                   ELSE <<[id_pregunta |-> q, id_opcion |-> f[q]]>>
    IN  Fila(1) \o Fila(2) \o Fila(3)

Elecciones == {f \in [1..3 -> {0, 1, 2}] : f[3] \in {0, 1}}

PesosPosibles ==
    {w \in [1..3 -> {None, 0, 1, 2, -1}] : w[3] \in {None, 2}}

\* A ce_score_cap_dim row of evaluation 1 left by a computation made when
\* question 2 (option 1, no weight row) was its only answer.
FilaAnterior ==
    [id_score |-> 1, id_evaluacion |-> 1, id_capacidad |-> 1, id_dimension |-> 1,
     score |-> 4 * Escala, h_den |-> 1, h_fallidas |-> 0, h_escrituras |-> 1]

\* SpecEval: direct calls of evaluar_condiciones.
InitEval ==
    /\ entrada \in [condiciones : {Numerar(l) : l \in Listas(MaxConds)},
                    scores : MapasDeScores]
    /\ salida = SinSalida
    /\ respuestas = <<>>
    /\ ponderaciones = [q \in 1..3 |-> None]
    /\ score_rows = {}
    /\ resultado_rows = {}
    /\ procs = TodoLibre
    /\ fallos = 0
    /\ invocaciones = 0

NextEval == Evaluar

SpecEval == InitEval /\ [][NextEval]_vars

\* SpecScore: one invocation of calcular_score_especifico over every store
\* content of answers and weights.
InitScore ==
    /\ entrada = SinEntrada
    /\ salida = SinSalida
    /\ respuestas \in {RespuestasDeEleccion(f) : f \in Elecciones}
    /\ ponderaciones \in PesosPosibles
    /\ score_rows \in {{}, {FilaAnterior}}
    /\ resultado_rows = {}
    /\ procs = TodoLibre
    /\ fallos = 0
    /\ invocaciones = 0

NextScore == IniciarEspecifico(1) \/ PasoEspecifico(1)

SpecScore == InitScore /\ [][NextScore]_vars

\* Spec: one caller at a time; each invocation runs to its end before the
\* next one starts.
Escenarios ==
    { [respuestas |-> RespuestasDeEleccion(<<2, 1, 1>>),
       ponderaciones |-> <<2, 1, None>>],
      [respuestas |-> RespuestasDeEleccion(<<2, 1, 0>>),
       ponderaciones |-> <<1, -1, None>>],
      [respuestas |-> <<>>,
       ponderaciones |-> <<None, None, None>>] }

Init ==
    /\ entrada = SinEntrada
    /\ salida = SinSalida
    /\ \E esc \in Escenarios :
          /\ respuestas = esc.respuestas
          /\ ponderaciones = esc.ponderaciones
    /\ score_rows = {}
    /\ resultado_rows = {}
    /\ procs = TodoLibre
    /\ fallos = 0
    /\ invocaciones = 0

Next ==
    \/ IniciarEspecifico(1)
    \/ IniciarTodos(1)
    \/ IniciarMotor(1)
    \/ PasoEspecifico(1)
    \/ PasoTodos(1)
    \/ PasoMotor(1)
    \/ Retornar(1)

Spec == Init /\ [][Next]_vars

\* SpecConc: two invocations of ejecutar_motor_reglas whose store requests
\* interleave; the scores of evaluation 1 were computed before.
InitConc ==
    /\ entrada = SinEntrada
    /\ salida = SinSalida
    /\ respuestas = RespuestasDeEleccion(<<2, 1, 1>>)
    /\ ponderaciones = <<2, 1, None>>
    /\ score_rows \in
          { {[id_score |-> 1, id_evaluacion |-> 1, id_capacidad |-> 1,
              id_dimension |-> 1, score |-> 6670, h_den |-> 3, h_fallidas |-> 0,
              h_escrituras |-> 1]},
            {[id_score |-> 1, id_evaluacion |-> 1, id_capacidad |-> 1,
              id_dimension |-> 1, score |-> 6670, h_den |-> 3, h_fallidas |-> 0,
              h_escrituras |-> 1],
             [id_score |-> 2, id_evaluacion |-> 1, id_capacidad |-> 2,
              id_dimension |-> 1, score |-> 4000, h_den |-> 1, h_fallidas |-> 0,
              h_escrituras |-> 1]} }
    /\ resultado_rows = {}
    /\ procs = TodoLibre
    /\ fallos = 0
    /\ invocaciones = 0

NextConc == \E p \in Procs : IniciarMotor(p) \/ PasoMotor(p)

SpecConc == InitConc /\ [][NextConc]_vars

\* SpecConcScore: two invocations of calcular_score_especifico whose store
\* requests interleave, on a store with or without an earlier score row.
InitConcScore ==
    /\ entrada = SinEntrada
    /\ salida = SinSalida
    /\ respuestas \in {RespuestasDeEleccion(<<2, 1, 1>>), RespuestasDeEleccion(<<2, 0, 0>>)}
    /\ ponderaciones = <<2, 1, None>>
    /\ score_rows \in {{}, {FilaAnterior}}
    /\ resultado_rows = {}
    /\ procs = TodoLibre
    /\ fallos = 0
    /\ invocaciones = 0

NextConcScore == \E p \in Procs : IniciarEspecifico(p) \/ PasoEspecifico(p)

SpecConcScore == InitConcScore /\ [][NextConcScore]_vars

\* POST /ponderaciones: explicit weight rows with peso 1.0 are created for
\* questions that had none, between two computations.
CrearPonderaciones ==
    /\ procs[1].pc = "fin"
    /\ procs[2].pc = "libre"
    /\ \E Q \in SUBSET {q \in 1..3 : ponderaciones[q] = None} :
          /\ Q # {}
          /\ ponderaciones' = [q \in 1..3 |-> IF q \in Q THEN 1
                                               ELSE ponderaciones[q]]
    /\ UNCHANGED <<entrada, salida, respuestas, score_rows, resultado_rows,
                   procs, fallos, invocaciones>>

\* The request of the first computation is made again.
RepetirEspecifico ==
    /\ procs[1].pc = "fin"
    /\ IniciarEspecifico(2)
    /\ procs'[2].id_evaluacion = procs[1].id_evaluacion
    /\ procs'[2].id_capacidad = procs[1].id_capacidad
    /\ procs'[2].id_dimension = procs[1].id_dimension

\* The stores whose weight rows, where present, have a peso other than 1.
PesosSinUno ==
    {w \in [1..3 -> {None, 0, 2, -1}] : w[3] \in {None, 2}}

\* SpecPesos: a computation, then explicit weight rows of 1.0 for questions
\* without weight, then the same computation again.
InitPesos ==
    /\ entrada = SinEntrada
    /\ salida = SinSalida
    /\ respuestas \in {RespuestasDeEleccion(f) : f \in Elecciones}
    /\ ponderaciones \in PesosSinUno
    /\ score_rows = {}
    /\ resultado_rows = {}
    /\ procs = TodoLibre
    /\ fallos = 0
    /\ invocaciones = 0

NextPesos ==
    \/ IniciarEspecifico(1)
    \/ PasoEspecifico(1)
    \/ CrearPonderaciones
    \/ RepetirEspecifico
    \/ PasoEspecifico(2)

SpecPesos == InitPesos /\ [][NextPesos]_vars

\* The arguments of the direct calls of evaluar_operador: observed values
\* and bounds around 0, 1, 5 and 10, some 0.001, 0.01 and 0.02 apart.
ValoresObservados ==
    {0, 10, 1000, 1010, 3000, 4980, 4990, 4999, 5000, 5001, 5010, 5020,
     7000, 10000}
ValoresLimite == {0, 1000, 5000, 10000}
Operadores == {">=", "<=", ">", "<", "=", "BETWEEN", "!=", "LIKE"}

\* SpecOper: direct calls of evaluar_operador.
InitOper ==
    /\ entrada \in [valor : ValoresObservados, operador : Operadores,
                    valor1 : ValoresLimite \cup {None},
                    valor2 : ValoresLimite \cup {None}]
    /\ salida = [hecho |-> FALSE, valor |-> FALSE]
    /\ respuestas = <<>>
    /\ ponderaciones = [q \in 1..3 |-> None]
    /\ score_rows = {}
    /\ resultado_rows = {}
    /\ procs = TodoLibre
    /\ fallos = 0
    /\ invocaciones = 0

NextOper == EvaluarOperador

SpecOper == InitOper /\ [][NextOper]_vars

\* The ce_condicion_regla rows of SpecOrden: POST /condiciones-regla takes
\* any integer as orden, so two rows of a rule can carry the same one.
FilasPool ==
    { Cond(o, g, c, k[1], k[2], ">=", 5 * Escala, None) :
         o \in {1, 2}, g \in {1, 2}, c \in {"AND", "OR"}, k \in {KA, KB} }

RECURSIVE ListasDeFilas(_)
ListasDeFilas(n) ==
    IF n = 0 THEN {<<>>}
    ELSE LET cortas == ListasDeFilas(n - 1)
         IN  cortas \cup { Append(l, c) : l \in {x \in cortas : Len(x) = n - 1},
                                          c \in FilasPool }

\* SpecOrden: the verdict of one rule for the condition rows in two store
\* orders.
InitOrden ==
    /\ \E l \in ListasDeFilas(MaxConds) \ {<<>>} :
          entrada \in [condiciones : {l}, permutadas : PermutacionesDe(l),
                       scores : MapasDeScores]
    /\ salida = [hecho |-> FALSE, cumple |-> FALSE, cumple_permutadas |-> FALSE]
    /\ respuestas = <<>>
    /\ ponderaciones = [q \in 1..3 |-> None]
    /\ score_rows = {}
    /\ resultado_rows = {}
    /\ procs = TodoLibre
    /\ fallos = 0
    /\ invocaciones = 0

NextOrden == EvaluarRegla

SpecOrden == InitOrden /\ [][NextOrden]_vars

\* The conditions of SpecAusente: comparisons with a positive bound, 0.01 or
\* 5, on a pair of KA, KB.
PoolAusente ==
    { Cond(0, 1, c, k[1], k[2], o, v, None) :
         c \in {"AND", "OR"}, k \in {KA, KB}, o \in {"<", ">=", "<=", ">"},
         v \in {Escala \div 100, 5 * Escala} }

\* The score maps of SpecAusente: those of MapasDeScores, one without KA and
\* the empty one.
MapasConHuecos == MapasDeScores \cup {(KB :> 8 * Escala), <<>>}

\* SpecAusente: direct calls of evaluar_condiciones with one or two
\* conditions on score maps that lack some of the pairs.
InitAusente ==
    /\ entrada \in [condiciones : {Numerar(<<a>>) : a \in PoolAusente} \cup
                                  {Numerar(<<a, b>>) : a, b \in PoolAusente},
                    scores : MapasConHuecos]
    /\ salida = SinSalida
    /\ respuestas = <<>>
    /\ ponderaciones = [q \in 1..3 |-> None]
    /\ score_rows = {}
    /\ resultado_rows = {}
    /\ procs = TodoLibre
    /\ fallos = 0
    /\ invocaciones = 0

NextAusente == Evaluar

SpecAusente == InitAusente /\ [][NextAusente]_vars

\* A ce_score_cap_dim row as an earlier calcular_score_especifico left it.
FilaGuardada(id_score, e, c, d, score) ==
    [id_score |-> id_score, id_evaluacion |-> e, id_capacidad |-> c,
     id_dimension |-> d, score |-> score, h_den |-> 1, h_fallidas |-> 0,
     h_escrituras |-> 1]

\* The score rows an evaluation run can find: none, rows of evaluation 1
\* for one or both keys the rules read, and a row of evaluation 3.
ScoresGuardados ==
    { {} } \cup
    { {FilaGuardada(1, 1, 1, 1, s)} : s \in {4000, 6670} } \cup
    { {FilaGuardada(1, 1, 1, 1, s), FilaGuardada(2, 1, 2, 1, t)} :
          s \in {4000, 6670}, t \in {0, 4000, 8000} } \cup
    { {FilaGuardada(1, 1, 1, 1, 6670), FilaGuardada(2, 3, 1, 1, 8000)} }

\* A ce_resultado_regla row of rule 1 left by a run that read score 4.0.
ResultadoAnterior ==
    LET scores == [k \in {<<1, 1>>} |-> 4000]
        r == evaluar_condiciones(Ordenar(CondicionesTabla(1)), scores)
    IN  [id_resultado_regla |-> 1, id_evaluacion |-> 1, id_regla |-> 1,
         fl_cumple |-> IF r.cumple THEN "Y" ELSE "N",
         valor_numerico |-> None, detalle_json |-> json_dumps(r.detalle),
         h_scores |-> scores, h_escrituras |-> 1]

\* SpecMotor: one invocation of ejecutar_motor_reglas over the stores above.
InitMotor ==
    /\ entrada = SinEntrada
    /\ salida = SinSalida
    /\ respuestas = <<>>
    /\ ponderaciones = [q \in 1..3 |-> None]
    /\ score_rows \in ScoresGuardados
    /\ resultado_rows \in {{}, {ResultadoAnterior}}
    /\ procs = TodoLibre
    /\ fallos = 0
    /\ invocaciones = 0

NextMotor == IniciarMotor(1) \/ PasoMotor(1)

SpecMotor == InitMotor /\ [][NextMotor]_vars

\* The score rows of evaluation 1 a summary can find: for each of the four
\* (capacity, dimension) keys no row, or a row with one of three scores.
ScoresParaResumen ==
    { {FilaGuardada(k, 1, ((k - 1) \div 2) + 1, ((k - 1) % 2) + 1, f[k]) :
          k \in {x \in 1..4 : f[x] # None}} :
      f \in [1..4 -> {None, 4000, 6670, 8000}] }

\* SpecResumen: one invocation of obtener_resumen_scores.
InitResumen ==
    /\ entrada = SinEntrada
    /\ salida = SinSalida
    /\ respuestas = <<>>
    /\ ponderaciones = [q \in 1..3 |-> None]
    /\ score_rows \in ScoresParaResumen
    /\ resultado_rows = {}
    /\ procs = TodoLibre
    /\ fallos = 0
    /\ invocaciones = 0

NextResumen == IniciarResumen(1) \/ ResumenGet(1)

SpecResumen == InitResumen /\ [][NextResumen]_vars

\* A ce_resultado_regla row as an earlier run of the rule engine left it.
ResultadoGuardado(id_resultado_regla, e, id_regla) ==
    [ResultadoAnterior EXCEPT !.id_resultado_regla = id_resultado_regla,
                              !.id_evaluacion = e, !.id_regla = id_regla]

\* The stores a cleanup can find: up to three score rows and up to two
\* result rows of evaluation 1, and one row of each table of evaluation 3.
ScoresParaLimpiar ==
    { {FilaGuardada(k, 1, ((k - 1) \div 2) + 1, ((k - 1) % 2) + 1, 4 * Escala) : k \in K}
         \cup {FilaGuardada(5, 3, 1, 1, 8 * Escala)} : K \in SUBSET {1, 2, 3} }

ResultadosParaLimpiar ==
    { R \cup {ResultadoGuardado(3, 3, 1)} :
         R \in SUBSET {ResultadoAnterior, ResultadoGuardado(2, 1, 3)} }

\* SpecLimpiar: calls of limpiar_scores and limpiar_resultados_reglas, one
\* after the other.
InitLimpiar ==
    /\ entrada = SinEntrada
    /\ salida = SinSalida
    /\ respuestas = <<>>
    /\ ponderaciones = [q \in 1..3 |-> None]
    /\ score_rows \in ScoresParaLimpiar
    /\ resultado_rows \in ResultadosParaLimpiar
    /\ procs = TodoLibre
    /\ fallos = 0
    /\ invocaciones = 0

NextLimpiar ==
    \/ IniciarLimpiarScores(1)
    \/ IniciarLimpiarResultados(1)
    \/ PasoLimpiar(1)
    \/ Retornar(1)

SpecLimpiar == InitLimpiar /\ [][NextLimpiar]_vars

\* A ce_resultado_regla row with fl_cumple = "Y" as an earlier run left it,
\* when the rule asked score(1,1) >= 6.5 and the score was 8.
ResultadoCumplido(id_resultado_regla, e, id_regla) ==
    LET scores == [k \in {<<1, 1>>} |-> 8 * Escala]
        r == evaluar_condiciones(<<Cond(1, 1, "AND", 1, 1, ">=", 6500, None)>>, scores)
    IN  [id_resultado_regla |-> id_resultado_regla, id_evaluacion |-> e,
         id_regla |-> id_regla, fl_cumple |-> IF r.cumple THEN "Y" ELSE "N",
         valor_numerico |-> None, detalle_json |-> json_dumps(r.detalle),
         h_scores |-> scores, h_escrituras |-> 1]

\* The result rows earlier runs can have left: for evaluation 1 a row of
\* rule 1 (not met), of rule 2 (met; the rule has no conditions any more),
\* of rule 5 (met; not active any more) and of rule 6 (met; a rule of another
\* version), and a row of evaluation 3.
ResultadosAnteriores ==
    { R \cup {ResultadoCumplido(5, 3, 1)} :
         R \in SUBSET {ResultadoAnterior, ResultadoCumplido(2, 1, 2),
                       ResultadoCumplido(3, 1, 5), ResultadoCumplido(4, 1, 6)} }

\* SpecInsights: runs of the rule engine and calls of the insights
\* operation, one after the other.
InitInsights ==
    /\ entrada = SinEntrada
    /\ salida = SinSalida
    /\ respuestas = <<>>
    /\ ponderaciones = [q \in 1..3 |-> None]
    /\ score_rows \in { {FilaGuardada(1, 1, 1, 1, s), FilaGuardada(2, 1, 2, 1, 4 * Escala)} :
                           s \in {4 * Escala, 6670} }
    /\ resultado_rows \in ResultadosAnteriores
    /\ procs = TodoLibre
    /\ fallos = 0
    /\ invocaciones = 0

NextInsights ==
    \/ IniciarMotor(1)
    \/ PasoMotor(1)
    \/ IniciarInsights(1)
    \/ PasoInsights(1)
    \/ Retornar(1)

SpecInsights == InitInsights /\ [][NextInsights]_vars

(***************************************************************************)
(* Properties of evaluar_condiciones, under SpecEval.  In SpecEval the     *)
(* orden of a condition is its position in the argument list, so the       *)
(* trace entry of a condition leads back to the condition.                 *)
(***************************************************************************)
Grupos == salida.detalle.detalle_grupos

\* The condition behind the n-th trace entry of group entry G.
CondDe(G, n) == entrada.condiciones[G.condiciones[n].orden]

\* The left-associative fold of the outcomes o[1..m] under the connectors
\* c[2..m], without recursion: the result is true exactly when some outcome
\* is true that enters the fold as the seed or through an OR, and no later
\* AND meets a false outcome.
PliegueIzquierdo(G) ==
    LET m == Len(G.condiciones)
    IN  \E j \in 1..m :
            /\ G.condiciones[j].cumple
            /\ j = 1 \/ CondDe(G, j).conector = "OR"
            /\ \A k \in (j + 1)..m :
                   CondDe(G, k).conector = "AND" => G.condiciones[k].cumple

ConectoresDefinidos(G) ==
    \A n \in 2..Len(G.condiciones) : CondDe(G, n).conector \in {"AND", "OR"}

\* C1: for a non-empty list of conditions, the result of each group (and,
\* when all conditions are in one group, the verdict) is the left fold of
\* the outcomes of its conditions: the first outcome seeds the running
\* boolean whatever its connector, each later outcome is combined by its
\* own connector, AND or OR, with no precedence.
C1_PliegueIzquierdo ==
    (salida.hecho /\ entrada.condiciones # <<>>) =>
        /\ \A g \in 1..Len(Grupos) :
               /\ Len(Grupos[g].condiciones) >= 1
               /\ \A n \in 1..Len(Grupos[g].condiciones) :
                      /\ CondDe(Grupos[g], n).grupo = Grupos[g].grupo_id
                      /\ n > 1 => Grupos[g].condiciones[n - 1].orden
                                      < Grupos[g].condiciones[n].orden
               /\ ConectoresDefinidos(Grupos[g]) =>
                      Grupos[g].cumple = PliegueIzquierdo(Grupos[g])
        /\ (Len(Grupos) = 1 /\ ConectoresDefinidos(Grupos[1])
               /\ Len(Grupos[1].condiciones) = Len(entrada.condiciones)) =>
               salida.cumple = PliegueIzquierdo(Grupos[1])

\* One group, three conditions "true OR x AND false" whose first connector is
\* AND: the fold gives false where precedence of AND over OR would give true.
C1_Testigo ==
    /\ salida.hecho
    /\ Len(entrada.condiciones) = 3
    /\ Len(Grupos) = 1
    /\ entrada.condiciones[1].conector = "AND"
    /\ entrada.condiciones[2].conector = "OR"
    /\ entrada.condiciones[3].conector = "AND"
    /\ Grupos[1].condiciones[1].cumple
    /\ ~Grupos[1].condiciones[3].cumple
    /\ ~salida.cumple

\* C2: for a non-empty list of conditions the verdict is true exactly when
\* the result of at least one group is true, every group of the list being
\* there once.
C2_OrEntreGrupos ==
    (salida.hecho /\ entrada.condiciones # <<>>) =>
        /\ {Grupos[g].grupo_id : g \in 1..Len(Grupos)}
               = {entrada.condiciones[i].grupo : i \in 1..Len(entrada.condiciones)}
        /\ \A g, h \in 1..Len(Grupos) :
               Grupos[g].grupo_id = Grupos[h].grupo_id => g = h
        /\ salida.cumple <=> (\E g \in 1..Len(Grupos) : Grupos[g].cumple)

\* Two groups, the first false and the second true: the verdict is true.
C2_Testigo ==
    /\ salida.hecho
    /\ entrada.condiciones # <<>>
    /\ Len(Grupos) = 2
    /\ ~Grupos[1].cumple
    /\ Grupos[2].cumple
    /\ salida.cumple

\* C9: a BETWEEN condition whose valor2 is absent does not get the ordinary
\* outcome false in the trace of its group (it is an error of that
\* condition).
C9_BetweenSinValor2 ==
    (salida.hecho /\ entrada.condiciones # <<>>) =>
        \A g \in 1..Len(Grupos) : \A n \in 1..Len(Grupos[g].condiciones) :
            (CondDe(Grupos[g], n).operador = "BETWEEN"
                 /\ CondDe(Grupos[g], n).valor2 = None)
              => ~(Grupos[g].condiciones[n].cumple = FALSE)

(***************************************************************************)
(* Claims about calcular_score_especifico, checked under SpecScore.  The   *)
(* expected values are computed from the stored answers and weights, not   *)
(* from the handler's accumulators.                                        *)
(***************************************************************************)
\* The positions of the stored answers of the evaluation whose question has
\* this capacity and this dimension.
Coincidentes(e, c, d) ==
    {n \in 1..Len(RespuestasDe(e)) :
        /\ Pregunta(RespuestasDe(e)[n].id_pregunta).id_capacidad = c
        /\ Pregunta(RespuestasDe(e)[n].id_pregunta).id_dimension = d}

\* The weight of an answer: the stored one, 1 where none is stored.
PesoDe(n) ==
    LET w == ponderaciones[respuestas[n].id_pregunta]
    IN  IF w = None THEN 1 ELSE w

RECURSIVE SumaPesos(_)
SumaPesos(S) ==
    IF S = {} THEN 0
    ELSE LET n == CHOOSE x \in S : TRUE
         IN  PesoDe(n) + SumaPesos(S \ {n})

RECURSIVE SumaPonderada(_)
SumaPonderada(S) ==
    IF S = {} THEN 0
    ELSE LET n == CHOOSE x \in S : TRUE
         IN  ValorBase(respuestas[n].id_opcion) * PesoDe(n) + SumaPonderada(S \ {n})

\* s (in thousandths) is num/den rounded to two decimals: a whole number of
\* hundredths at most half a hundredth away from the quotient.
EsRedondeoA2(s, num, den) ==
    /\ s % 10 = 0
    /\ 2 * Abs(s * den - Escala * num) <= 10 * Abs(den)

Terminado(p, op) == procs[p].pc = "fin" /\ procs[p].op = op

\* C3: a computeScore invocation none of whose store requests failed, on an
\* evaluation with a version and matching answers of weight sum > 0, returns
\* the weighted mean sum(value*weight)/sum(weight) of the matching answers
\* rounded to two decimals (absent weight = 1), and the one row of its key
\* holds that score.
C3_MediaPonderada ==
    \A p \in Procs :
        LET pr == procs[p]
            M  == Coincidentes(pr.id_evaluacion, pr.id_capacidad, pr.id_dimension)
        IN  (/\ Terminado(p, "especifico")
             /\ pr.fallidas = 0
             /\ VersionDe(pr.id_evaluacion) # None
             /\ M # {}
             /\ SumaPesos(M) > 0)
            => /\ pr.resultado.status = 200
               /\ EsRedondeoA2(pr.resultado.cuerpo.score,
                               SumaPonderada(M), SumaPesos(M))
               /\ pr.resultado.cuerpo.num_respuestas = Cardinality(M)
               /\ \A r \in ScoresDeClave(pr.id_evaluacion, pr.id_capacidad,
                                         pr.id_dimension) :
                      r.score = pr.resultado.cuerpo.score
               /\ Cardinality(ScoresDeClave(pr.id_evaluacion, pr.id_capacidad,
                                            pr.id_dimension)) = 1

\* Values 8 and 4 with weights 2 and 1 gave 6.67, returned and stored.
C3_Testigo ==
    /\ Terminado(1, "especifico")
    /\ procs[1].fallidas = 0
    /\ Len(respuestas) = 2
    /\ Coincidentes(procs[1].id_evaluacion, procs[1].id_capacidad,
                 procs[1].id_dimension) = {1, 2}
    /\ ValorBase(respuestas[1].id_opcion) = 8 /\ PesoDe(1) = 2
    /\ ValorBase(respuestas[2].id_opcion) = 4 /\ PesoDe(2) = 1
    /\ procs[1].resultado.status = 200
    /\ procs[1].resultado.cuerpo.score = 6670
    /\ \E r \in score_rows : r.score = 6670 /\ r.h_den = 3

\* C4: a computeScore invocation for which no stored answer matches the
\* capacity and dimension never reaches the division nor the write, ends
\* without a score and leaves the score rows as they were; when the
\* evaluation has a version and no store request failed it ends with the
\* no-data error.
C4_SinRespuestasNoHayScore ==
    \A p \in Procs :
        LET pr == procs[p] IN
        (/\ pr.op = "especifico"
         /\ Coincidentes(pr.id_evaluacion, pr.id_capacidad, pr.id_dimension) = {})
        => /\ pr.pc \notin {"gs_get", "gs_put", "gs_post"}
           /\ score_rows \subseteq {FilaAnterior}
           /\ pr.pc = "fin" =>
                 /\ pr.resultado.status # 200
                 /\ (VersionDe(pr.id_evaluacion) # None /\ pr.fallidas = 0)
                    => /\ pr.resultado.status = 400
                       /\ pr.resultado.detail \in
                              {"sin_respuestas", "sin_respuestas_capdim"}

\* Answers exist, none for the requested pair: the no-data error, no row.
C4_Testigo ==
    /\ Terminado(1, "especifico")
    /\ respuestas # <<>>
    /\ Coincidentes(procs[1].id_evaluacion, procs[1].id_capacidad,
                 procs[1].id_dimension) = {}
    /\ procs[1].i = Len(respuestas)
    /\ procs[1].fallidas = 0
    /\ procs[1].resultado.status = 400
    /\ procs[1].resultado.detail = "sin_respuestas_capdim"
    /\ score_rows = {}

\* C5: no score row was written from a zero denominator, and no invocation
\* is at the division and write with a zero denominator.
C5_DenominadorNoCero ==
    /\ \A r \in score_rows : r.h_den # 0
    /\ \A p \in Procs :
          procs[p].pc \in {"gs_get", "gs_put", "gs_post"}
          => procs[p].denominador # 0

\* Two matching answers whose weights cancel: the invocation ended with the
\* error and wrote nothing.
C5_Testigo ==
    /\ Terminado(1, "especifico")
    /\ procs[1].num_respuestas = 2
    /\ procs[1].denominador = 0
    /\ SumaPesos(Coincidentes(procs[1].id_evaluacion, procs[1].id_capacidad,
                 procs[1].id_dimension)) = 0
    /\ procs[1].resultado.status = 400
    /\ score_rows = {}

(***************************************************************************)
(* Claims about sequences of invocations, checked under Spec, and about    *)
(* interleaved invocations, checked under SpecConc.                        *)
(***************************************************************************)
C6_SinDuplicados ==
    /\ \A r1, r2 \in score_rows :
          (/\ r1.id_evaluacion = r2.id_evaluacion
           /\ r1.id_capacidad = r2.id_capacidad
           /\ r1.id_dimension = r2.id_dimension) => r1 = r2
    /\ \A r1, r2 \in resultado_rows :
          (r1.id_evaluacion = r2.id_evaluacion /\ r1.id_regla = r2.id_regla)
          => r1 = r2

\* A step keeps the id of the row of every key it writes again; it keeps the
\* score when neither writer had a failed store request, and the verdict and
\* detail when both writers read the same score map.
C6_EnSuSitio ==
    /\ \A r \in score_rows : \A r2 \in score_rows' :
          (/\ r.id_evaluacion = r2.id_evaluacion
           /\ r.id_capacidad = r2.id_capacidad
           /\ r.id_dimension = r2.id_dimension)
          => /\ r2.id_score = r.id_score
             /\ (r.h_fallidas = 0 /\ r2.h_fallidas = 0) => r2.score = r.score
    /\ \A r \in resultado_rows : \A r2 \in resultado_rows' :
          (r.id_evaluacion = r2.id_evaluacion /\ r.id_regla = r2.id_regla)
          => /\ r2.id_resultado_regla = r.id_resultado_regla
             /\ r2.h_scores = r.h_scores
                => /\ r2.fl_cumple = r.fl_cumple
                   /\ r2.detalle_json = r.detalle_json

\* C6: through every sequence of non-overlapping invocations from an empty
\* store, each (evaluation, capability, dimension) has at most one score row
\* and each (evaluation, rule) at most one result row; a repeated invocation
\* rewrites the row of its key in place, with the same value when its inputs
\* are unchanged.
C6_Idempotencia == []C6_SinDuplicados /\ [][C6_EnSuSitio]_vars

\* A score row and a result row have each been written twice.
C6_Testigo ==
    /\ \E r \in score_rows : r.h_escrituras >= 2 /\ r.h_fallidas = 0
    /\ \E r \in resultado_rows : r.h_escrituras >= 2
    /\ C6_SinDuplicados

\* C8: an invocation of computeScore or runRuleEngine one of whose store
\* requests failed ends with the store error, never with a normal answer or
\* with another error computed from a substituted value.
C8_FallosSePropagan ==
    \A p \in Procs :
        (/\ procs[p].pc = "fin"
         /\ procs[p].op \in {"especifico", "motor"}
         /\ procs[p].fallidas > 0)
        => procs[p].resultado.status = 500

\* C10: computeAllScores records as skipped only the pairs that failed for
\* lack of data; for an evaluation without version it records nothing and
\* does not end with a normal answer.
C10_SoloNoDataSeOmite ==
    \A p \in Procs :
        procs[p].op = "todos"
        => /\ \A n \in 1..Len(procs[p].errores) :
                 procs[p].errores[n].error \in
                     {"sin_respuestas", "sin_respuestas_capdim"}
           /\ (procs[p].pc = "fin" /\ VersionDe(procs[p].id_evaluacion) = None)
              => procs[p].resultado.status # 200

\* C7: when two interleaved runRuleEngine invocations for the same
\* evaluation have both ended normally, every rule either of them reports
\* has exactly one result row for that evaluation.
C7_UnaFilaPorClave ==
    (\A p \in Procs : /\ procs[p].pc = "fin"
                      /\ procs[p].op = "motor"
                      /\ procs[p].id_evaluacion = 1
                      /\ procs[p].resultado.status = 200)
    => \A p \in Procs :
          \A n \in 1..Len(procs[p].resultado.cuerpo.resultados) :
              Cardinality(ResultadosDeClave(
                  1, procs[p].resultado.cuerpo.resultados[n].id_regla)) = 1

\* The fields of a batch answer that describe the sub-items that succeeded.
CamposDeExito ==
    {"scores_calculados", "scores_detalle",
     "total_reglas", "reglas_cumplidas", "reglas_no_cumplidas", "resultados"}

\* A sub-item of the batch failed: a pair of computeAllScores was recorded
\* in errores, or a store request failed inside the rule loop.
FalloParcial(pr) ==
    \/ pr.op = "todos" /\ pr.errores # <<>>
    \/ pr.op = "motor" /\ pr.j >= 1 /\ pr.fallidas > 0

\* C11: a batch invocation (computeAllScores, runRuleEngine) some of whose
\* sub-items failed still ends with a summary, and the summary has a
\* non-empty field, apart from those of the successes, for the failed ones.
C11_ResumenConFallidos ==
    \A p \in Procs :
        (procs[p].pc = "fin" /\ FalloParcial(procs[p]))
        => /\ procs[p].resultado.status = 200
           /\ \E f \in DOMAIN procs[p].resultado.cuerpo \ CamposDeExito :
                 procs[p].resultado.cuerpo[f] # <<>>

(***************************************************************************)
(* Claims about one ejecutar_motor_reglas invocation, checked under        *)
(* SpecMotor.                                                              *)
(***************************************************************************)
\* The active rules of a version that have at least one condition row.
ReglasConCondiciones(id_version) ==
    {ReglasActivas(id_version)[n] : n \in
        {m \in 1..Len(ReglasActivas(id_version)) :
            CondicionesTabla(ReglasActivas(id_version)[m]) # <<>>}}

EntradasCon(resultados, fl) ==
    Cardinality({n \in 1..Len(resultados) : resultados[n].fl_cumple = fl})

\* C12: no result row exists for a rule without conditions; a run that ends
\* normally reports no such rule, its total is the number of reported rules,
\* split into satisfied and not satisfied; when no store request failed the
\* reported rules are exactly the active rules that have conditions.
C12_ReglaSinCondiciones ==
    /\ \A r \in resultado_rows : CondicionesTabla(r.id_regla) # <<>>
    /\ \A p \in Procs :
          LET pr == procs[p]
              c  == pr.resultado.cuerpo
          IN  (Terminado(p, "motor") /\ pr.resultado.status = 200)
              => /\ \A n \in 1..Len(c.resultados) :
                        CondicionesTabla(c.resultados[n].id_regla) # <<>>
                 /\ c.total_reglas = Len(c.resultados)
                 /\ c.reglas_cumplidas = EntradasCon(c.resultados, "Y")
                 /\ c.reglas_no_cumplidas = EntradasCon(c.resultados, "N")
                 /\ pr.fallidas = 0
                    => {c.resultados[n].id_regla : n \in 1..Len(c.resultados)}
                          = ReglasConCondiciones(VersionDe(pr.id_evaluacion))

\* A run over the four active rules of version 1, rule 2 without conditions,
\* reported three rules and left no row for rule 2.
C12_Testigo ==
    /\ Terminado(1, "motor")
    /\ procs[1].fallidas = 0
    /\ procs[1].resultado.status = 200
    /\ procs[1].reglas = <<1, 2, 3, 4>>
    /\ CondicionesTabla(2) = <<>>
    /\ procs[1].resultado.cuerpo.total_reglas = 3
    /\ ResultadosDeClave(1, 2) = {}
    /\ ResultadosDeClave(1, 3) # {}

(***************************************************************************)
(* Claims about the default weight, checked under SpecPesos: invocation 1  *)
(* ran on the store as drawn, invocation 2 is the same request on the      *)
(* store after explicit rows of peso 1 were created for questions without  *)
(* a weight row.                                                           *)
(***************************************************************************)
AmbosTerminados ==
    /\ Terminado(1, "especifico") /\ procs[1].fallidas = 0
    /\ Terminado(2, "especifico") /\ procs[2].fallidas = 0

\* C13: the computation on a store without weight rows for some questions
\* and the same computation on the store with explicit rows of weight 1 for
\* them end alike, with the same score; and a computation whose matching
\* answers have no weight row, or weight 1, does not fail.
C13_PesoPorDefecto ==
    /\ AmbosTerminados => procs[1].resultado = procs[2].resultado
    /\ \A p \in Procs :
          LET pr == procs[p]
              M  == Coincidentes(pr.id_evaluacion, pr.id_capacidad, pr.id_dimension)
          IN  (/\ Terminado(p, "especifico") /\ pr.fallidas = 0
               /\ VersionDe(pr.id_evaluacion) # None
               /\ M # {}
               /\ \A n \in M :
                     ponderaciones[respuestas[n].id_pregunta] \in {None, 1})
              => /\ pr.resultado.status = 200
                 /\ pr.resultado.cuerpo.peso_total = Cardinality(M) * Escala

\* Value 8 without weight row, then with an explicit weight 1, next to value
\* 4 of weight 2: both computations gave (8 + 4*2) / 3 = 5.33.
C13_Testigo ==
    /\ AmbosTerminados
    /\ respuestas = RespuestasDeEleccion(<<2, 1, 0>>)
    /\ ponderaciones = <<1, 2, None>>
    /\ procs[1].id_capacidad = 1 /\ procs[1].id_dimension = 1
    /\ procs[1].resultado.status = 200
    /\ procs[1].resultado.cuerpo.score = 5330
    /\ procs[2].resultado.cuerpo.score = 5330

(***************************************************************************)
(* Claims about evaluar_operador, checked under SpecOper.                  *)
(***************************************************************************)
\* C14: with value1 present, evaluar_operador returns observed >= value1
\* for ">=", observed <= value1 for "<=", observed > value1 for ">",
\* observed < value1 for "<", and, with value2 present as well,
\* value1 <= observed <= value2 for "BETWEEN".
C14_TablaDeOperadores ==
    (salida.hecho /\ entrada.valor1 # None)
    => LET v == entrada.valor
           a == entrada.valor1
           b == entrada.valor2
       IN  /\ entrada.operador = ">=" => (salida.valor <=> v >= a)
           /\ entrada.operador = "<=" => (salida.valor <=> v <= a)
           /\ entrada.operador = ">"  => (salida.valor <=> v > a)
           /\ entrada.operador = "<"  => (salida.valor <=> v < a)
           /\ (entrada.operador = "BETWEEN" /\ b # None)
              => (salida.valor <=> (a <= v /\ v <= b))

\* 5 BETWEEN 5 and 10: the lower end is inclusive.
C14_Testigo ==
    /\ salida.hecho
    /\ entrada = [valor |-> 5000, operador |-> "BETWEEN", valor1 |-> 5000,
                  valor2 |-> 10000]
    /\ salida.valor = TRUE

\* C15: for "=" evaluar_operador returns true exactly when the difference
\* between observed and value1 is less than 0.01 in absolute value; a
\* difference of 0.01 or more gives false.
C15_ToleranciaEstricta ==
    (salida.hecho /\ entrada.operador = "=" /\ entrada.valor1 # None)
    => (salida.valor <=> IgualEnReales(entrada.valor, entrada.valor1))

(***************************************************************************)
(* Claims about conditions with an unknown operator, checked under         *)
(* SpecMotor: the first condition of rule 4 has operator LIKE, the second  *)
(* (OR) asks score(1,1) >= 6.5, and group 2 asks score(2,1) >= 3.0.        *)
(***************************************************************************)
ScoreLeido(scores, k) == IF k \in DOMAIN scores THEN scores[k] ELSE 0

\* C16: every result row of rule 4 records its LIKE condition as not met,
\* records all three conditions in their two groups, and holds the verdict
\* of the remaining conditions; a run that ends normally without a failed
\* store request reports rule 4 and has left its row.
C16_OperadorDesconocido ==
    /\ \A r \in resultado_rows :
          r.id_regla = 4
          => LET dg == json_loads(r.detalle_json).detalle_grupos IN
             /\ Len(dg) = 2
             /\ Len(dg[1].condiciones) = 2 /\ Len(dg[2].condiciones) = 1
             /\ dg[1].condiciones[1].operador = "LIKE"
             /\ dg[1].condiciones[1].cumple = FALSE
             /\ r.fl_cumple = "Y" <=>
                   \/ ScoreLeido(r.h_scores, <<1, 1>>) >= 6500
                   \/ ScoreLeido(r.h_scores, <<2, 1>>) >= 3000
    /\ \A p \in Procs :
          (/\ Terminado(p, "motor") /\ procs[p].fallidas = 0
           /\ procs[p].resultado.status = 200
           /\ procs[p].reglas # <<>>)
          => /\ \E n \in 1..Len(procs[p].resultado.cuerpo.resultados) :
                   procs[p].resultado.cuerpo.resultados[n].id_regla = 4
             /\ ResultadosDeClave(procs[p].id_evaluacion, 4) # {}

\* Score(1,1) = 4.0 fails the second condition, score(2,1) = 4.0 satisfies
\* group 2: the rule with the LIKE condition was stored as satisfied.
C16_Testigo ==
    /\ Terminado(1, "motor")
    /\ procs[1].fallidas = 0
    /\ procs[1].resultado.status = 200
    /\ procs[1].scores = (<<1, 1>> :> 4000) @@ (<<2, 1>> :> 4000)
    /\ \E r \in ResultadosDeClave(1, 4) :
          /\ r.fl_cumple = "Y"
          /\ json_loads(r.detalle_json).detalle_grupos[1].cumple = FALSE
          /\ json_loads(r.detalle_json).detalle_grupos[2].cumple = TRUE

(***************************************************************************)
(* Claims about the checks ejecutar_motor_reglas makes before its rule     *)
(* loop, checked under SpecMotor.                                          *)
(***************************************************************************)
EnElBucle == {"rr_condiciones", "gr_get", "gr_put", "gr_post"}

\* C17: a run for an evaluation without version requests neither scores nor
\* rules nor conditions, ends with an error (the missing-version error when
\* its request of the evaluation succeeded), and no result row of such an
\* evaluation exists.
C17_SinVersion ==
    /\ \A p \in Procs :
          LET pr == procs[p] IN
          (pr.op = "motor" /\ VersionDe(pr.id_evaluacion) = None)
          => /\ pr.pc \in {"rr_evaluacion", "fin"}
             /\ pr.reglas = <<>>
             /\ pr.pc = "fin"
                => /\ pr.resultado.status # 200
                   /\ pr.fallidas = 0
                      => /\ pr.resultado.status = 400
                         /\ pr.resultado.detail = "sin_version"
    /\ \A r \in resultado_rows : VersionDe(r.id_evaluacion) # None

\* The run for evaluation 2 ended with the missing-version error.
C17_Testigo ==
    /\ Terminado(1, "motor")
    /\ procs[1].id_evaluacion = 2
    /\ procs[1].fallidas = 0
    /\ procs[1].resultado.status = 400
    /\ procs[1].resultado.detail = "sin_version"
    /\ procs[1].reglas = <<>>

\* C18: a run is past the check of its score map only with a non-empty
\* map, and every result row was computed from a non-empty map; a run for
\* an evaluation with a version and no score row, none of whose requests
\* failed, ends with the no-scores error before its first rule.
C18_SinScores ==
    /\ \A p \in Procs :
          LET pr == procs[p] IN
          pr.op = "motor"
          => /\ pr.pc \in EnElBucle \cup {"rr_reglas"} => DOMAIN pr.scores # {}
             /\ (pr.pc = "fin" /\ pr.resultado.status = 200)
                => DOMAIN pr.scores # {}
             /\ (/\ pr.pc = "fin" /\ pr.fallidas = 0
                 /\ VersionDe(pr.id_evaluacion) # None
                 /\ \A r \in score_rows : r.id_evaluacion # pr.id_evaluacion)
                => /\ pr.resultado.status = 400
                   /\ pr.resultado.detail = "sin_scores"
                   /\ pr.reglas = <<>> /\ pr.j = 0
                   /\ pr.resultados = <<>>
    /\ \A r \in resultado_rows : DOMAIN r.h_scores # {}

\* The run for evaluation 1 found no score row and wrote nothing.
C18_Testigo ==
    /\ Terminado(1, "motor")
    /\ procs[1].id_evaluacion = 1
    /\ procs[1].fallidas = 0
    /\ score_rows = {}
    /\ procs[1].resultado.status = 400
    /\ procs[1].resultado.detail = "sin_scores"
    /\ resultado_rows = {}

\* C19: a run for an evaluation with a version without active rules and
\* with score rows never enters the rule loop; when none of its requests
\* failed it ends normally with total, satisfied and not satisfied 0 and no
\* results, and the evaluation has no result row.
C19_SinReglas ==
    \A p \in Procs :
        LET pr == procs[p]
            e  == pr.id_evaluacion
        IN  (/\ pr.op = "motor"
             /\ VersionDe(e) # None
             /\ ReglasActivas(VersionDe(e)) = <<>>
             /\ \E r \in score_rows : r.id_evaluacion = e)
            => /\ pr.pc \notin EnElBucle
               /\ \A r \in resultado_rows : r.id_evaluacion # e
               /\ (pr.pc = "fin" /\ pr.fallidas = 0)
                  => /\ pr.resultado.status = 200
                     /\ pr.resultado.cuerpo =
                            [total_reglas |-> 0, reglas_cumplidas |-> 0,
                             reglas_no_cumplidas |-> 0, resultados |-> <<>>]

\* The run for evaluation 3 (version 2, one score row) returned the empty
\* summary.
C19_Testigo ==
    /\ Terminado(1, "motor")
    /\ procs[1].id_evaluacion = 3
    /\ procs[1].id_version = 2
    /\ procs[1].fallidas = 0
    /\ DOMAIN procs[1].scores # {}
    /\ procs[1].resultado.status = 200
    /\ procs[1].resultado.cuerpo.total_reglas = 0
    /\ procs[1].resultado.cuerpo.resultados = <<>>

(***************************************************************************)
(* Claims about obtener_resumen_scores, checked under SpecResumen.  The    *)
(* store has two capacities, so the mean of the capacity means is written  *)
(* out for one and for two capacities.                                     *)
(***************************************************************************)
\* s is a whole number of hundredths at most half a hundredth away from
\* suma / n.
EsRedondeoDeMedia(s, suma, n) ==
    /\ s % 10 = 0
    /\ 2 * Abs(s * n - suma) <= 10 * n

RECURSIVE SumaScoresDe(_)
SumaScoresDe(rows) ==
    IF rows = {} THEN 0
    ELSE LET r == CHOOSE x \in rows : TRUE
         IN  r.score + SumaScoresDe(rows \ {r})

FilasDe(e, c) == {r \in score_rows : r.id_evaluacion = e /\ r.id_capacidad = c}

\* C20: a summary that ended normally lists, in order of capacity, exactly
\* the capacities that have a score row, each with the number of its rows
\* and the plain mean of their scores to two decimals; its global score is
\* the plain mean of those capacity means to two decimals; with no row the
\* global score is 0 and the list is empty.
C20_ResumenDeScores ==
    \A p \in Procs :
        LET pr == procs[p]
            e  == pr.id_evaluacion
            c  == pr.resultado.cuerpo
            caps == {x \in {1, 2} : FilasDe(e, x) # {}}
            n1 == Cardinality(FilasDe(e, 1))
            n2 == Cardinality(FilasDe(e, 2))
            s1 == SumaScoresDe(FilasDe(e, 1))
            s2 == SumaScoresDe(FilasDe(e, 2))
        IN  (Terminado(p, "resumen") /\ pr.resultado.status = 200)
            => /\ c.total_scores = n1 + n2
               /\ Len(c.por_capacidad) = Cardinality(caps)
               /\ \A i \in 1..Len(c.por_capacidad) :
                     LET x == c.por_capacidad[i] IN
                     /\ x.id_capacidad \in caps
                     /\ \A k \in 1..(i - 1) :
                           c.por_capacidad[k].id_capacidad < x.id_capacidad
                     /\ x.num_dimensiones = Cardinality(FilasDe(e, x.id_capacidad))
                     /\ EsRedondeoDeMedia(x.score_promedio,
                                          SumaScoresDe(FilasDe(e, x.id_capacidad)),
                                          x.num_dimensiones)
               /\ caps = {} => c.score_global = 0
               /\ caps = {1} => EsRedondeoDeMedia(c.score_global, s1, n1)
               /\ caps = {2} => EsRedondeoDeMedia(c.score_global, s2, n2)
               /\ caps = {1, 2}
                  => EsRedondeoDeMedia(c.score_global, s1 * n2 + s2 * n1,
                                       2 * n1 * n2)

\* Capacity 1 has scores 8.0 and 4.0, capacity 2 only 4.0: the means are
\* 6.0 and 4.0 and the global score is 5.0 (the mean of the three rows
\* would be 5.33).
C20_Testigo ==
    /\ Terminado(1, "resumen")
    /\ procs[1].id_evaluacion = 1
    /\ {<<r.id_capacidad, r.id_dimension, r.score>> : r \in score_rows}
          = {<<1, 1, 8000>>, <<1, 2, 4000>>, <<2, 1, 4000>>}
    /\ procs[1].resultado.status = 200
    /\ procs[1].resultado.cuerpo.score_global = 5000
    /\ Len(procs[1].resultado.cuerpo.por_capacidad) = 2
    /\ procs[1].resultado.cuerpo.por_capacidad[1].score_promedio = 6000

(***************************************************************************)
(* Claims about two interleaved calcular_score_especifico invocations,     *)
(* checked under SpecConcScore.                                            *)
(***************************************************************************)
\* C21: in every state of two interleaved computeScore invocations the
\* store holds at most one score row for each (evaluation, capability,
\* dimension) key.
C21_UnaFilaPorScore ==
    \A e \in Evaluaciones :
    \A c \in {CapacidadesActivas[x] : x \in 1..Len(CapacidadesActivas)} :
    \A d \in {DimensionesActivas[x] : x \in 1..Len(DimensionesActivas)} :
        Cardinality(ScoresDeClave(e, c, d)) <= 1

(***************************************************************************)
(* Claims about the bookkeeping of one ejecutar_motor_reglas invocation,   *)
(* checked under SpecMotor.                                                *)
(***************************************************************************)
\* The verdict of a rule on the scores of an evaluation as the store has them.
Veredicto(e, id_regla) ==
    evaluar_condiciones(Ordenar(CondicionesTabla(id_regla)), ScoreDict(e))

\* The positions of the summary's result list that are about a rule.
EntradasDe(resultados, id_regla) ==
    {n \in 1..Len(resultados) : resultados[n].id_regla = id_regla}

\* C22: when a run in which no store request failed ends normally, every
\* active rule with at least one condition has exactly one result row for
\* the evaluation, computed from the scores the run read and written at
\* most once by it, whose flag is the rule's verdict; the summary has exactly one entry for each such rule and none
\* for any other, with the same flag; the total is the number of entries,
\* the satisfied and not satisfied counts are the numbers of Y and N
\* entries, and they add up to the total.
C22_UnResultadoPorRegla ==
    \A p \in Procs :
        LET pr == procs[p]
            c  == pr.resultado.cuerpo
            evaluadas == ReglasConCondiciones(VersionDe(pr.id_evaluacion))
        IN  (Terminado(p, "motor") /\ pr.resultado.status = 200 /\ pr.fallidas = 0)
            => /\ \A r \in evaluadas :
                     /\ Cardinality(ResultadosDeClave(pr.id_evaluacion, r)) = 1
                     /\ \A row \in ResultadosDeClave(pr.id_evaluacion, r) :
                           /\ (row.fl_cumple = "Y") = Veredicto(pr.id_evaluacion, r).cumple
                           /\ json_loads(row.detalle_json) = Veredicto(pr.id_evaluacion, r).detalle
                           /\ row.h_scores = pr.scores
                           /\ row.h_escrituras <= 1 + ResultadoAnterior.h_escrituras
                     /\ Cardinality(EntradasDe(c.resultados, r)) = 1
                     /\ \A n \in EntradasDe(c.resultados, r) :
                           (c.resultados[n].fl_cumple = "Y")
                               = Veredicto(pr.id_evaluacion, r).cumple
               /\ \A n \in 1..Len(c.resultados) : c.resultados[n].id_regla \in evaluadas
               /\ c.total_reglas = Len(c.resultados)
               /\ c.total_reglas = Cardinality(evaluadas)
               /\ c.reglas_cumplidas = EntradasCon(c.resultados, "Y")
               /\ c.reglas_no_cumplidas = EntradasCon(c.resultados, "N")
               /\ c.reglas_cumplidas + c.reglas_no_cumplidas = c.total_reglas

\* A run over rules 1, 3 and 4 ended normally with a satisfied and a not
\* satisfied rule, having updated the earlier row of rule 1 and inserted the
\* row of rule 3.
C22_Testigo ==
    /\ Terminado(1, "motor")
    /\ procs[1].fallidas = 0
    /\ procs[1].resultado.status = 200
    /\ procs[1].resultado.cuerpo.total_reglas = 3
    /\ procs[1].resultado.cuerpo.reglas_cumplidas >= 1
    /\ procs[1].resultado.cuerpo.reglas_no_cumplidas >= 1
    /\ \E row \in ResultadosDeClave(1, 1) : row.h_escrituras = 2 /\ row.fl_cumple = "Y"
    /\ \E row \in ResultadosDeClave(1, 3) : row.h_escrituras = 1 /\ row.fl_cumple = "N"

(***************************************************************************)
(* Claims about the order of the condition rows, checked under SpecOrden.  *)
(***************************************************************************)
\* C23: the verdict of a rule is the same for every order in which the
\* store returns the rule's condition rows.
C23_VeredictoSinOrdenDeAlmacen ==
    salida.hecho => salida.cumple = salida.cumple_permutadas

(***************************************************************************)
(* Claims about scores the map does not have, checked under SpecAusente.   *)
(***************************************************************************)
\* The pair of the condition is not a key of the score map of the call.
Ausente(cond) == <<cond.id_capacidad, cond.id_dimension>> \notin DOMAIN entrada.scores

\* C24: the call returns a trace with an entry for every condition; the
\* entry of a condition whose pair the score map lacks shows the observed
\* score 0 and a boolean outcome: true for "<" with a positive value1,
\* false for ">=" with a positive value1; a rule made of that one condition
\* has that outcome as its verdict.
C24_ScoreAusenteEsCero ==
    salida.hecho =>
        /\ "error" \notin DOMAIN salida.detalle
        /\ UNION {{Grupos[g].condiciones[n].orden :
                       n \in 1..Len(Grupos[g].condiciones)} : g \in 1..Len(Grupos)}
              = 1..Len(entrada.condiciones)
        /\ \A g \in 1..Len(Grupos) : \A n \in 1..Len(Grupos[g].condiciones) :
              LET t == Grupos[g].condiciones[n]
                  cond == CondDe(Grupos[g], n)
              IN  Ausente(cond) =>
                     /\ t.valor_actual = 0
                     /\ t.cumple \in BOOLEAN
                     /\ (cond.operador = "<" /\ cond.valor1 > 0) => t.cumple
                     /\ (cond.operador = ">=" /\ cond.valor1 > 0) => ~t.cumple
                     /\ (Len(entrada.condiciones) = 1
                            /\ cond.operador \in {"<", ">="} /\ cond.valor1 > 0)
                        => salida.cumple = (cond.operador = "<")

\* A call with "(2,1) < 5 AND (2,1) >= 0.01" on a map without the pair (2,1):
\* the first entry passes, the second fails, both with observed score 0.
C24_Testigo ==
    /\ salida.hecho
    /\ Len(entrada.condiciones) = 2
    /\ KB \notin DOMAIN entrada.scores
    /\ KA \in DOMAIN entrada.scores
    /\ \A i \in 1..2 : <<entrada.condiciones[i].id_capacidad,
                         entrada.condiciones[i].id_dimension>> = KB
    /\ entrada.condiciones[1].operador = "<"
    /\ entrada.condiciones[2].operador = ">="
    /\ entrada.condiciones[2].conector = "AND"
    /\ Len(Grupos) = 1
    /\ Grupos[1].condiciones[1].cumple
    /\ Grupos[1].condiciones[1].valor_actual = 0
    /\ ~Grupos[1].condiciones[2].cumple
    /\ ~salida.cumple

(***************************************************************************)
(* Claims about direct calls of evaluar_condiciones, checked under         *)
(* SpecEval.                                                               *)
(***************************************************************************)
\* C25: a call with an empty condition list returns the verdict false and a
\* trace whose only entry is an error text: no groups, no counts.
C25_SinCondicionesEsFalso ==
    (salida.hecho /\ entrada.condiciones = <<>>) =>
        /\ salida.cumple = FALSE
        /\ DOMAIN salida.detalle = {"error"}
        /\ salida.detalle.error = "No hay condiciones"

\* The call with the empty list was made on a map with two scores, one of
\* them 8: a map on which rules with conditions are satisfied.
C25_Testigo ==
    /\ salida.hecho
    /\ entrada.condiciones = <<>>
    /\ DOMAIN entrada.scores = {KA, KB}
    /\ entrada.scores[KA] = 8 * Escala
    /\ ~salida.cumple

(***************************************************************************)
(* Claims about limpiar_scores and limpiar_resultados_reglas, checked      *)
(* under SpecLimpiar.                                                      *)
(***************************************************************************)
\* The ids of the rows of the evaluation the store holds, in the table the
\* cleanup works on.
IdsEnTabla(pr) ==
    IF pr.op = "limpiar_scores"
    THEN {r.id_score : r \in {x \in score_rows : x.id_evaluacion = pr.id_evaluacion}}
    ELSE {r.id_resultado_regla :
             r \in {x \in resultado_rows : x.id_evaluacion = pr.id_evaluacion}}

\* The count the cleanup reports.
Eliminados(pr) ==
    IF pr.op = "limpiar_scores"
    THEN pr.resultado.cuerpo.scores_eliminados
    ELSE pr.resultado.cuerpo.resultados_eliminados

\* C26: a cleanup that has sent a DELETE ends normally, whatever became of
\* its deletes; when it has ended normally a DELETE was sent for every row
\* it listed, the rows of the evaluation still in the store are those whose
\* DELETE failed, and the reported count is the number of listed rows that
\* are gone, which is the number of listed rows less the failed deletes.
C26_BorradoTolerante ==
    \A p \in Procs :
        LET pr == procs[p]
            listados == {pr.ids[n] : n \in 1..Len(pr.ids)}
        IN  (pr.pc = "fin" /\ pr.op \in {"limpiar_scores", "limpiar_resultados"})
            => /\ pr.h_intentados # {} => pr.resultado.status = 200
               /\ pr.resultado.status = 200 =>
                     /\ pr.h_intentados = listados
                     /\ IdsEnTabla(pr) \subseteq listados
                     /\ Cardinality(IdsEnTabla(pr)) = pr.fallidas
                     /\ Eliminados(pr) = Cardinality(listados \ IdsEnTabla(pr))
                     /\ Eliminados(pr) = Len(pr.ids) - pr.fallidas

\* A cleanup of three score rows whose first DELETE failed: the two later
\* rows are gone, the first is still there, and the count is 2.
C26_Testigo ==
    /\ Terminado(1, "limpiar_scores")
    /\ procs[1].resultado.status = 200
    /\ Len(procs[1].ids) = 3
    /\ procs[1].fallidas = 1
    /\ IdsEnTabla(procs[1]) = {procs[1].ids[1]}
    /\ procs[1].resultado.cuerpo.scores_eliminados = 2

(***************************************************************************)
(* Claims about obtener_insights_ejecutivos, checked under SpecInsights.   *)
(***************************************************************************)
\* The entry the insights operation owes to a result row: the descriptive
\* fields of the row's rule and the trace the row stores.
EntradaDebida(row) ==
    [codigo |-> ReglaTabla(row.id_regla).codigo,
     nombre |-> ReglaTabla(row.id_regla).nombre,
     descripcion |-> ReglaTabla(row.id_regla).descripcion,
     tipo |-> ReglaTabla(row.id_regla).tipo_regla,
     detalle |-> json_loads(row.detalle_json)]

\* The result rows of an evaluation with this flag, as the store has them.
FilasConFlag(e, fl) ==
    {r \in resultado_rows : r.id_evaluacion = e /\ r.fl_cumple = fl}

\* When the insights operation has ended normally its entries are, one for
\* one, those of the stored rows of the evaluation with fl_cumple = "Y", and
\* num_insights is their number.
C27_UnaEntradaPorCumplida ==
    \A p \in Procs :
        LET pr == procs[p]
            c  == pr.resultado.cuerpo
            cumplidas == FilasConFlag(pr.id_evaluacion, "Y")
        IN  (Terminado(p, "insights") /\ pr.resultado.status = 200)
            => /\ c.num_insights = Cardinality(cumplidas)
               /\ Len(c.insights) = Cardinality(cumplidas)
               /\ \E f \in [1..Len(c.insights) -> cumplidas] :
                     /\ \A m, n \in 1..Len(c.insights) : f[m] = f[n] => m = n
                     /\ \A n \in 1..Len(c.insights) : c.insights[n] = EntradaDebida(f[n])

\* A step of the insights operation leaves both tables as they are.
C27_SoloLectura ==
    (\E p \in Procs : procs[p].op = "insights" \/ procs'[p].op = "insights")
    => UNCHANGED <<score_rows, resultado_rows, respuestas, ponderaciones>>

\* C27: the insights operation writes nothing to the store and returns
\* exactly one entry for every stored result row of the evaluation whose
\* flag is Y, with the rule's descriptive fields and the stored trace, and
\* no entry for a row whose flag is N.
C27_Insights == []C27_UnaEntradaPorCumplida /\ [][C27_SoloLectura]_vars

\* The insights of evaluation 1 were returned while the store held rows of
\* the evaluation with flag Y, two of them, and a row with flag N written by
\* a run of the rule engine.
C27_Testigo ==
    /\ Terminado(1, "insights")
    /\ procs[1].id_evaluacion = 1
    /\ procs[1].resultado.status = 200
    /\ procs[1].resultado.cuerpo.num_insights = 2
    /\ \E r \in FilasConFlag(1, "N") : r.h_escrituras = 2 \/ r.id_regla = 3
    /\ \E r \in FilasConFlag(1, "Y") : r.id_regla = 2

(***************************************************************************)
(* Claims about connectors other than AND and OR, checked under SpecEval.  *)
(***************************************************************************)
\* The argument list with the condition at position i replaced by one on
\* the same pair that every score satisfies (>= 0) or none does (< 0).
ConOtroResultado(i, cumple) ==
    [entrada.condiciones EXCEPT
        ![i] = [@ EXCEPT !.operador = IF cumple THEN ">=" ELSE "<", !.valor1 = 0]]

\* C28: a condition that is not the first of its group and whose connector
\* is neither AND nor OR is listed in the trace of its group with its
\* connector and its outcome, and the outcome has no effect: with the
\* condition replaced by one that is always met, or by one that is never
\* met, the result of the group and the verdict stay what they were.
C28_ConectorNuloNoCuenta ==
    (salida.hecho /\ entrada.condiciones # <<>>) =>
        \A g \in 1..Len(Grupos) : \A n \in 2..Len(Grupos[g].condiciones) :
            LET t == Grupos[g].condiciones[n]
                cond == CondDe(Grupos[g], n)
            IN  cond.conector \notin {"AND", "OR"} =>
                   /\ t.conector = cond.conector
                   /\ t.cumple = Cumple(entrada.scores, cond)
                   /\ \A b \in BOOLEAN :
                         LET r == evaluar_condiciones(ConOtroResultado(t.orden, b),
                                                      entrada.scores)
                         IN  /\ r.detalle.detalle_grupos[g].condiciones[n].cumple = b
                             /\ r.detalle.detalle_grupos[g].cumple = Grupos[g].cumple
                             /\ r.cumple = salida.cumple

\* One group of two conditions: the first is met, the second, with a null
\* connector, is not; the group and the rule are met.
C28_Testigo ==
    /\ salida.hecho
    /\ Len(entrada.condiciones) = 2
    /\ Len(Grupos) = 1
    /\ entrada.condiciones[2].conector = "None"
    /\ Grupos[1].condiciones[1].cumple
    /\ ~Grupos[1].condiciones[2].cumple
    /\ Grupos[1].cumple
    /\ salida.cumple

(***************************************************************************)
(* Claims about the rows a run of the rule engine leaves alone, checked    *)
(* under SpecInsights.                                                     *)
(***************************************************************************)
\* The rule of the row is not one the rule engine evaluates for the row's
\* evaluation: it is not active, belongs to another version or has no
\* conditions.
NoEvaluada(row) ==
    row.id_regla \notin ReglasConCondiciones(VersionDe(row.id_evaluacion))

\* A step of a run of the rule engine deletes no result row, and leaves as
\* it is every row of another evaluation and every row of a rule that is
\* not evaluated.
C29_SinTocarLasDemas ==
    \A p \in Procs :
        procs[p].op = "motor" =>
            \A r \in resultado_rows :
                /\ \E r2 \in resultado_rows' :
                      r2.id_resultado_regla = r.id_resultado_regla
                /\ (r.id_evaluacion # procs[p].id_evaluacion \/ NoEvaluada(r))
                      => r \in resultado_rows'

\* The insights of an evaluation have the entry of every stored row with
\* flag Y whose rule is not evaluated.
C29_SiguenVisibles ==
    \A p \in Procs :
        (Terminado(p, "insights") /\ procs[p].resultado.status = 200)
        => \A r \in FilasConFlag(procs[p].id_evaluacion, "Y") :
              NoEvaluada(r) =>
                 \E n \in 1..Len(procs[p].resultado.cuerpo.insights) :
                    procs[p].resultado.cuerpo.insights[n] = EntradaDebida(r)

\* C29: a run of the rule engine never deletes a result row and never
\* changes the row of a rule it does not evaluate (not active, of another
\* version, without conditions), so such a row with flag Y left by an
\* earlier run is still returned by the insights operation after the run.
C29_FilasAjenasIntactas == [][C29_SinTocarLasDemas]_vars /\ []C29_SiguenVisibles

\* After a run over evaluation 1 that wrote the row of rule 3, the insights
\* of evaluation 1 have the entries of the earlier rows of rule 2 (no
\* conditions), rule 5 (not active) and rule 6 (another version), which are
\* in the store as they were.
C29_Testigo ==
    /\ Terminado(1, "insights")
    /\ procs[1].id_evaluacion = 1
    /\ procs[1].resultado.status = 200
    /\ ResultadosDeClave(1, 3) # {}
    /\ ResultadosDeClave(1, 4) # {}
    /\ {ResultadoCumplido(2, 1, 2), ResultadoCumplido(3, 1, 5),
        ResultadoCumplido(4, 1, 6)} \subseteq resultado_rows
    /\ \A r \in {ResultadoCumplido(2, 1, 2), ResultadoCumplido(3, 1, 5),
                 ResultadoCumplido(4, 1, 6)} :
          \E n \in 1..Len(procs[1].resultado.cuerpo.insights) :
             procs[1].resultado.cuerpo.insights[n] = EntradaDebida(r)

(***************************************************************************)
(* Claims about what calcular_score_especifico writes, checked under       *)
(* SpecConcScore.                                                          *)
(***************************************************************************)
ClaveDe(r) == <<r.id_evaluacion, r.id_capacidad, r.id_dimension>>

\* A step of an invocation changes the score table only as the last step of
\* the invocation, which then returns normally, and only when the version,
\* all the answers, and the question and option of every matching answer
\* were read and the denominator is not 0; the step adds or replaces one
\* row, of the key of the invocation, and leaves every other row as it is.
\* A step that ends the invocation with an error changes nothing, and no
\* step touches the result table.
C30_UnaEscrituraAlFinal ==
    \A p \in Procs :
        LET pr == procs[p] IN
        procs'[p] # pr =>
            /\ score_rows' # score_rows =>
                  /\ pr.op = "especifico"
                  /\ pr.pc \in {"gs_put", "gs_post"}
                  /\ pr.id_version # None
                  /\ pr.id_version = VersionDe(pr.id_evaluacion)
                  /\ pr.respuestas # <<>>
                  /\ pr.respuestas = RespuestasDe(pr.id_evaluacion)
                  /\ pr.i = Len(pr.respuestas)
                  /\ pr.num_respuestas
                        = Cardinality(Coincidentes(pr.id_evaluacion, pr.id_capacidad,
                                                   pr.id_dimension))
                  /\ pr.denominador # 0
                  /\ procs'[p].pc = "fin"
                  /\ procs'[p].resultado.status = 200
                  /\ Cardinality(score_rows' \ score_rows) = 1
                  /\ Cardinality(score_rows \ score_rows') <= 1
                  /\ \A r \in (score_rows' \ score_rows) \cup (score_rows \ score_rows') :
                        ClaveDe(r) = ClaveDe(pr)
                  /\ \A r \in score_rows : \E r2 \in score_rows' : r2.id_score = r.id_score
            /\ (procs'[p].pc = "fin" /\ procs'[p].resultado.status # 200)
                  => UNCHANGED score_rows
            /\ UNCHANGED resultado_rows

\* C30: a computeScore invocation writes to the store once, as its last
\* step, after the reads of the evaluation, the answers, the questions and
\* the options have succeeded and the denominator check has passed; an
\* invocation that ends with an error has written nothing; no row of
\* another key is created, modified or removed.
C30_SoloLaClavePedida == [][C30_UnaEscrituraAlFinal]_vars

\* Invocation 1 has written the row of key (1, 2, 1) next to the earlier row
\* of key (1, 1, 1), which is as it was; invocation 2, for a key without
\* matching answers, has ended with an error.
C30_Testigo ==
    /\ Terminado(1, "especifico")
    /\ procs[1].resultado.status = 200
    /\ ClaveDe(procs[1]) = <<1, 2, 1>>
    /\ Terminado(2, "especifico")
    /\ procs[2].resultado.status = 400
    /\ procs[2].resultado.detail = "sin_respuestas_capdim"
    /\ FilaAnterior \in score_rows
    /\ Cardinality(score_rows) = 2
    /\ \E r \in score_rows : ClaveDe(r) = <<1, 2, 1>> /\ r.h_escrituras = 1

====
